---------------------------- MODULE Spec2Model ----------------------------
(***************************************************************************)
(* Wallet analyzer: the RPC client (api_client.py), the history fetcher    *)
(* (transaction_fetcher.py), the transaction processor and instruction     *)
(* decoder (transaction_processor.py) and the PnL aggregator               *)
(* (wallet_analyzer.py), as state machines.                                *)
(*                                                                         *)
(* Python's None is the string "None" where the other values are strings,  *)
(* and a record tagged "None" where they are records.                      *)
(***************************************************************************)
EXTENDS Integers, Sequences, FiniteSets, TLC

VARIABLES
    rpc_urls,          \* APIClient.rpc_urls: the configured endpoint list
    current_rpc_url,   \* APIClient.current_rpc_url
    frame,             \* frame[t]: the post_request call of thread t
    fh,                \* the fetch_transaction_history call in progress
    pt,                \* the process_transaction call in progress
    account_info,      \* what the endpoint answers a getAccountInfo with, now
    dec,               \* decode_instruction calls: the latest, and one remembered
    pnl,               \* the calculate_pnl call in progress
    market,            \* the price collaborator's quote per token, now
    token_price_cache, \* lru_cache of WalletAnalyzer.get_token_price
    an,                \* the analyze_wallet call in progress
    wk,                \* wk[w]: the fetch_and_process task of pool thread w
    details_cache,     \* lru_cache of fetch_transaction_details
    balance_cache,     \* lru_cache of fetch_wallet_balance
    sol_price_cache,   \* lru_cache of WalletAnalyzer.get_sol_to_usd_price
    dt                 \* a fetch_transaction_details call made directly

rpcVars == <<rpc_urls, current_rpc_url, frame>>
fetchVars == <<fh, dt>>
procVars == <<pt>>
decVars == <<account_info, dec>>
pnlVars == <<pnl, market, token_price_cache>>
anVars == <<an, wk, details_cache, balance_cache, sol_price_cache>>
vars == <<rpc_urls, current_rpc_url, frame, fh, pt, account_info, dec, pnl, market,
          token_price_cache, an, wk, details_cache, balance_cache,
          sol_price_cache, dt>>

(***************************************************************************)
(* Bounds of the model.                                                    *)
(***************************************************************************)
NUrls == 2          \* distinct endpoint URLs
NSigs == 2          \* distinct signatures the endpoint may name
MaxPage == 2        \* longest page the endpoint answers with
MaxCount == 4       \* largest max_transactions of a direct fetch
MaxBatch == 2       \* largest batch_size of a fetcher
MaxInstr == 2       \* most instructions in one transaction
MaxStream == 2      \* most transactions in a stream given to calculate_pnl
MaxServed == 1      \* pages of history a wallet has, inside analyze_wallet
MaxRuns == 1        \* analyze_wallet calls on one WalletAnalyzer
MaxBursts == 3      \* bursts of other lookups between direct detail calls

None == "None"
NoneRec == [tag |-> "None"]

Max(a, b) == IF a >= b THEN a ELSE b
Min(a, b) == IF a <= b THEN a ELSE b

(***************************************************************************)
(* transaction_processor.py: safe_base64_decode and decode_instruction     *)
(*                                                                         *)
(* A payload string is a sequence of characters; a character of the        *)
(* base64 alphabet is its 6-bit value 0..63, and 64 is a character outside *)
(* the alphabet. Payloads carry no "=" of their own.                       *)
(***************************************************************************)
E9 == 1000000000    \* 10**9

OutsideAlphabet == 64

\* "AwDKmjsAAAAAAQ": bytes 03 | 00 ca 9a 3b 00 00 00 00 | 01
\* (tag 3, 10**9 lamports, account index 1)
P_TRANSFER10 == <<0, 48, 3, 10, 38, 35, 44, 0, 0, 0, 0, 0, 0, 16>>
\* "AwA": bytes 03 00, too short for a transfer of either program
P_SHORT == <<0, 48, 0>>
\* "Ag": byte 02 (CreateAccount of the system program)
P_CREATE == <<0, 32>>
\* "A": one data character, which base64 rejects
P_BAD == <<0>>
\* "3": one data character again; read as base58 it is the byte 02
P_DIGIT == <<55>>

\* instruction.get("data"): a string, or None
NoData == [is_none |-> TRUE, s |-> <<>>]
Str(s) == [is_none |-> FALSE, s |-> s]

DataValues ==
    {NoData, Str(P_BAD), Str(P_DIGIT), Str(P_SHORT), Str(P_CREATE),
     Str(P_TRANSFER10)}

\* Three bytes of four 6-bit characters; a tail of two characters gives one
\* byte, of three gives two.
RECURSIVE SextetsToBytes(_)
SextetsToBytes(sx) ==
    IF Len(sx) >= 4
    THEN <<sx[1] * 4 + sx[2] \div 16,
           (sx[2] % 16) * 16 + sx[3] \div 4,
           (sx[3] % 4) * 64 + sx[4]>>
         \o SextetsToBytes(SubSeq(sx, 5, Len(sx)))
    ELSE IF Len(sx) = 3
    THEN <<sx[1] * 4 + sx[2] \div 16, (sx[2] % 16) * 16 + sx[3] \div 4>>
    ELSE IF Len(sx) = 2
    THEN <<sx[1] * 4 + sx[2] \div 16>>
    ELSE <<>>

InAlphabet(c) == c < OutsideAlphabet

\* safe_base64_decode(data): "=" is added up to a multiple of 4 of the string's
\* length, then base64.b64decode drops the characters outside the alphabet and
\* raises on a number of data characters that is 1 mod 4 or on too little
\* padding; the except turns that into None.
safe_base64_decode(s) ==
    LET missing_padding == Len(s) % 4
        pads == IF missing_padding # 0 THEN 4 - missing_padding ELSE 0
        sx == SelectSeq(s, InAlphabet)
        r == Len(sx) % 4
    IN IF r = 1 \/ (r = 2 /\ pads < 2) \/ (r = 3 /\ pads < 1)
       THEN [is_none |-> TRUE, bytes |-> <<>>]
       ELSE [is_none |-> FALSE, bytes |-> SextetsToBytes(sx)]

\* int.from_bytes(b, byteorder='little')
RECURSIVE FromBytesLittle(_)
FromBytesLittle(b) ==
    IF Len(b) = 0 THEN 0 ELSE b[1] + 256 * FromBytesLittle(Tail(b))

\* data[lo:hi] of Python (0-based, hi excluded, clipped to the length)
Slice(b, lo, hi) == SubSeq(b, lo + 1, Min(hi, Len(b)))

\* config("TOKEN_PROGRAM_ID"), config("SYSTEM_PROGRAM_ID")
TOKEN_PROGRAM_ID == "Token"
SYSTEM_PROGRAM_ID == "System"

\* accountKeys of a transaction
KeyLists == {<<>>, <<TOKEN_PROGRAM_ID, SYSTEM_PROGRAM_ID>>}

\* account_keys[i] if i < len(account_keys) else "Unknown", for i >= 0
KeyAt(account_keys, i) ==
    IF i < Len(account_keys) THEN account_keys[i + 1] ELSE "Unknown"

\* A dict is a record of its keys; d.get(key, default):
Get(d, key, default) == IF key \in DOMAIN d THEN d[key] ELSE default

EmptyDict == [x \in {} |-> 0]

\* A variant: the transfer branch as it would be with the token looked up at
\* the endpoint (detect_token).
DecodedDataLookup(data, program_id, account_keys) ==
    IF program_id = TOKEN_PROGRAM_ID /\ Len(data) >= 9 /\ data[1] = 3
    THEN [raised |-> FALSE,
          d |-> [type |-> "transfer",
                 amount |-> FromBytesLittle(Slice(data, 1, 9)) \div E9,
                 token |-> account_info,
                 token_account |->
                     KeyAt(account_keys, FromBytesLittle(Slice(data, 9, 10)))]]
    ELSE [raised |-> FALSE, d |-> EmptyDict]

\* What the program branches of decode_instruction leave in decoded_data, or
\* the exception they raise. The token program's transfer branch reads the
\* name detect_token, which is no global and no local: NameError. A transfer
\* amount is lamports / 10**9; the payloads of the model hold whole multiples.
DecodedData(data, program_id, account_keys) ==
    IF program_id = TOKEN_PROGRAM_ID
    THEN IF Len(data) >= 9
         THEN LET instruction_type == data[1]
                  amount == FromBytesLittle(Slice(data, 1, 9)) \div E9
              IN IF instruction_type = 3
                 THEN LET token_account_index ==
                              FromBytesLittle(Slice(data, 9, 10))
                          token_account == KeyAt(account_keys, token_account_index)
                      IN [raised |-> TRUE, d |-> EmptyDict]
                 ELSE [raised |-> FALSE, d |-> EmptyDict]
         ELSE [raised |-> FALSE, d |-> EmptyDict]
    ELSE IF program_id = SYSTEM_PROGRAM_ID
    THEN IF Len(data) >= 1
         THEN LET instruction_type == data[1]
              IN IF instruction_type = 2
                 THEN [raised |-> FALSE, d |-> [type |-> "create_account"]]
                 ELSE IF instruction_type = 3
                 THEN IF Len(data) >= 9
                      THEN [raised |-> FALSE,
                            d |-> [type |-> "transfer",
                                   amount |->
                                       FromBytesLittle(Slice(data, 1, 9)) \div E9,
                                   token |-> "SOL"]]
                      ELSE [raised |-> FALSE, d |-> EmptyDict]
                 ELSE [raised |-> FALSE, d |-> EmptyDict]
         ELSE [raised |-> FALSE, d |-> EmptyDict]
    ELSE [raised |-> FALSE, d |-> EmptyDict]

\* The end of decode_instruction's try block. The statement
\* "return decoded_data if decoded_data else None" stands inside the string
\* literal of lines 199-213, so the block ends without a return and the call
\* gives None whatever decoded_data holds.
FallOffEnd(decoded_data) == NoneRec

\* decode_instruction with the token looked up at the endpoint and the dict
\* returned.
decode_instruction_lookup(instruction_data, program_id, account_keys) ==
    IF instruction_data.is_none \/ instruction_data.s = <<>>
    THEN NoneRec
    ELSE LET data == safe_base64_decode(instruction_data.s)
         IN IF data.is_none
            THEN NoneRec
            ELSE LET dd == DecodedDataLookup(data.bytes, program_id, account_keys)
                 IN IF dd.d = EmptyDict
                    THEN NoneRec
                    ELSE [tag |-> "dict", d |-> dd.d]

\* decode_instruction(instruction_data, program_id, account_keys): None, or the
\* decoded dict.
decode_instruction(instruction_data, program_id, account_keys) ==
    IF instruction_data.is_none \/ instruction_data.s = <<>>
    THEN NoneRec                                   \* not instruction_data
    ELSE LET data == safe_base64_decode(instruction_data.s)
         IN IF data.is_none
            THEN NoneRec                           \* data.hex() on None, caught
            ELSE LET dd == DecodedData(data.bytes, program_id, account_keys)
                 IN IF dd.raised
                    THEN NoneRec                   \* except Exception
                    ELSE FallOffEnd(dd.d)

\* A timestamp that is None.
NoneTime == -1

SecondsPerDay == 86400

\* datetime.now(), as epoch seconds: day 400.
Now == 34560000

(***************************************************************************)
(* What the endpoint can answer.                                           *)
(***************************************************************************)
Sigs == 1..NSigs

\* A page of getSignaturesForAddress: signature records, each its signature.
RECURSIVE SeqsUpTo(_, _)
SeqsUpTo(S, n) ==
    IF n = 0 THEN {<<>>}
    ELSE LET shorter == SeqsUpTo(S, n - 1)
         IN shorter \cup {Append(q, x) : q \in {r \in shorter : Len(r) = n - 1}, x \in S}

Pages == SeqsUpTo(Sigs, MaxPage)

\* A page with a record that has no "signature" key.
MalformedPage == <<0>>

\* getBalance: result.value in lamports
BalanceValues == {0, E9, 2 * E9}

NoResult == [has_result |-> FALSE, result |-> <<>>]

\* getSignaturesForAddress inside analyze_wallet: the wallet's history ends,
\* the endpoint has nothing more to list after MaxServed pages.
PagesServed ==
    IF an.pc = "history" /\ fh.requests > MaxServed THEN {<<>>} ELSE Pages

\* getTransaction: the result is null, or the detail of the signature asked
\* for: a token transfer of 40 days ago under the keys <<Token, System>>, or an
\* instruction whose index counts back beyond the start of an empty key list.
DetailsOf(sig) ==
    {[signature |-> sig, blockTime |-> [kind |-> "int", t |-> Now - 40 * SecondsPerDay],
      fee |-> 5,
      instructions |-> <<[has_index |-> TRUE, programIdIndex |-> 0,
                          data |-> Str(P_TRANSFER10)]>>,
      accountKeys |-> <<TOKEN_PROGRAM_ID, SYSTEM_PROGRAM_ID>>],
     [signature |-> sig, blockTime |-> [kind |-> "null", t |-> 0],
      fee |-> 0,
      instructions |-> <<[has_index |-> TRUE, programIdIndex |-> -1,
                          data |-> Str(P_SHORT)]>>,
      accountKeys |-> <<>>]}

JsonBodies(method, params) ==
    CASE method = "getSignaturesForAddress" ->
             {NoResult} \cup
             {[has_result |-> TRUE, result |-> p] :
                  p \in PagesServed \cup {MalformedPage}}
      [] method = "getBalance" ->
             {NoResult} \cup
             {[has_result |-> TRUE, result |-> <<v>>] : v \in BalanceValues}
      [] OTHER ->
             {NoResult, [has_result |-> TRUE, result |-> NoneRec]} \cup
             {[has_result |-> TRUE, result |-> d] : d \in DetailsOf(params)}

(***************************************************************************)
(* api_client.py: APIClient                                                *)
(***************************************************************************)
Threads == {"main", "w1", "w2"}
Workers == Threads \ {"main"}

Urls == 1..NUrls

\* __init__: the URL list of the environment variable, not empty; the same URL
\* may be listed twice.
UrlLists ==
    {<<1>>} \cup {<<a, b>> : a \in Urls, b \in Urls}
            \cup {<<a, b, c>> : a \in Urls, b \in Urls, c \in Urls}

max_retries == 3

\* What one requests.post can end in.
Outcomes == {"200", "429", "other_status", "timeout", "connection_error"}
Exceptions == {"timeout", "connection_error"}

\* A variant: only Timeout is caught.
CaughtTimeoutOnly(outcome) == outcome = "timeout"

\* except requests.exceptions.RequestException: Timeout and ConnectionError
\* are both subclasses.
Caught(outcome) == outcome \in {"timeout", "connection_error"}

\* A variant: 429 is taken for a success.
IsSuccessOr429(outcome) == outcome \in {"200", "429"}

\* response.status_code == 200
IsSuccess(outcome) == outcome = "200"

\* list.index: the first position holding the value (0-based).
IndexOf(urls, url) ==
    (CHOOSE i \in 1..Len(urls) :
        /\ urls[i] = url
        /\ \A j \in 1..(i - 1) : urls[j] # url) - 1

\* A variant: the current URL is kept.
switch_rpc_url_stay(urls, cur) == cur

\* switch_rpc_url, lines 24-26.
switch_rpc_url(urls, cur) ==
    LET current_index == IndexOf(urls, cur)
        next_index == (current_index + 1) % Len(urls)
    IN urls[next_index + 1]

\* The frame of a thread that is not inside post_request.
IdleFrame ==
    [pc |-> "idle", attempt |-> 0, method |-> None, params |-> 0,
     ret |-> NoneRec, sent |-> 0, rotations |-> 0, last |-> None, seen |-> {},
     first_url |-> 0, prev_url |-> 0, current_index |-> 0]

\* Entering post_request(method, params): attempt is the for loop's variable;
\* sent and rotations count the requests posted and the switch_rpc_url calls of
\* this call, last is how the latest request ended, seen the ways the requests
\* of this call failed, first_url the URL its first request was posted to (0
\* before it), prev_url the URL that was current when the call before it on
\* the thread returned (0 when there was none), current_index the local of the
\* switch_rpc_url call in progress.
CallFrame(method, params) ==
    [pc |-> "loop", attempt |-> 0, method |-> method, params |-> params,
     ret |-> NoneRec, sent |-> 0, rotations |-> 0, last |-> None, seen |-> {},
     first_url |-> 0, prev_url |-> 0, current_index |-> 0]

\* How the requests of a call ended (last, seen) is noted for the calls of the
\* main thread, where it is looked at; the pool threads run the same code.
Noted(t, value, old) == IF t = "main" THEN value ELSE old

\* A variant: the first request of a call goes to the first URL of the list.
RequestUrlReset(urls, cur, attempt) == IF attempt = 0 THEN urls[1] ELSE cur

\* Line 46: the request is posted to self.current_rpc_url.
RequestUrl(urls, cur, attempt) == cur

\* A variant: one iteration more.
LoopDoneLate(attempt) == attempt >= max_retries + 1

\* The for loop ends after max_retries iterations.
LoopDone(attempt) == attempt >= max_retries


\* One iteration of post_request's for loop: the request, the status checks or
\* the except clause, then switch_rpc_url and the backoff sleep; after the last
\* iteration the function returns None.
PostRequestAttempt(t) ==
    /\ frame[t].pc = "loop"
    /\ \E outcome \in Outcomes :
         LET url == RequestUrl(rpc_urls, current_rpc_url, frame[t].attempt)
             f == [frame[t] EXCEPT
                      !.sent = @ + 1,
                      !.last = Noted(t, outcome, @),
                      !.first_url = IF @ = 0 THEN Noted(t, url, @) ELSE @]
         IN
         IF IsSuccess(outcome)
         THEN /\ \E body \in JsonBodies(f.method, f.params) :
                   frame' = [frame EXCEPT ![t] =
                       [f EXCEPT !.pc = "returned",
                                 !.ret = [tag |-> "json", body |-> body]]]
              /\ UNCHANGED <<rpc_urls, current_rpc_url>>
         ELSE IF outcome \in Exceptions /\ ~Caught(outcome)
         THEN /\ frame' = [frame EXCEPT ![t] =
                       [f EXCEPT !.pc = "raised",
                                 !.seen = Noted(t, @ \cup {outcome}, @)]]
              /\ UNCHANGED <<rpc_urls, current_rpc_url>>
         ELSE /\ current_rpc_url' = switch_rpc_url(rpc_urls, current_rpc_url)
              /\ frame' = [frame EXCEPT ![t] =
                       [f EXCEPT !.pc = IF LoopDone(f.attempt + 1)
                                        THEN "returned" ELSE "loop",
                                 !.attempt = @ + 1,
                                 !.rotations = @ + 1,
                                 !.seen = Noted(t, @ \cup {outcome}, @)]]
              /\ UNCHANGED rpc_urls
    /\ UNCHANGED <<fetchVars, procVars, decVars, pnlVars, anVars>>

(***************************************************************************)
(* The client shared by the tasks of the pool: post_request statement by   *)
(* statement, each pool thread running one fetch_transaction_details call. *)
(***************************************************************************)
\* transaction_fetcher.py line 144, from fetch_and_process on a pool thread.
PoolTaskCall(t) ==
    /\ frame[t].pc = "idle"
    /\ \E sig \in Sigs : frame' = [frame EXCEPT ![t] = CallFrame("getTransaction", sig)]
    /\ UNCHANGED <<rpc_urls, current_rpc_url>>
    /\ UNCHANGED <<fetchVars, procVars, decVars, pnlVars, anVars>>

\* Lines 43-62: the request of one iteration and what is made of its outcome,
\* up to the call of switch_rpc_url at line 64.
PostRequestSend(t) ==
    /\ frame[t].pc = "loop"
    /\ \E outcome \in Outcomes :
         LET f == [frame[t] EXCEPT !.sent = @ + 1] IN
         IF IsSuccess(outcome)
         THEN \E body \in JsonBodies(f.method, f.params) :
                 frame' = [frame EXCEPT ![t] =
                     [f EXCEPT !.pc = "returned",
                               !.ret = [tag |-> "json", body |-> body]]]
         ELSE IF outcome \in Exceptions /\ ~Caught(outcome)
         THEN frame' = [frame EXCEPT ![t] = [f EXCEPT !.pc = "raised"]]
         ELSE frame' = [frame EXCEPT ![t] = [f EXCEPT !.pc = "switch"]]
    /\ UNCHANGED <<rpc_urls, current_rpc_url>>
    /\ UNCHANGED <<fetchVars, procVars, decVars, pnlVars, anVars>>

\* Line 24: current_index = self.rpc_urls.index(self.current_rpc_url)
SwitchRead(t) ==
    /\ frame[t].pc = "switch"
    /\ frame' = [frame EXCEPT ![t] =
           [@ EXCEPT !.pc = "write",
                     !.current_index = IndexOf(rpc_urls, current_rpc_url)]]
    /\ UNCHANGED <<rpc_urls, current_rpc_url>>
    /\ UNCHANGED <<fetchVars, procVars, decVars, pnlVars, anVars>>

\* Lines 25-26: self.current_rpc_url = self.rpc_urls[next_index]; then the
\* sleep of line 66 and the next iteration, or the return of line 68.
SwitchWrite(t) ==
    /\ frame[t].pc = "write"
    /\ LET next_index == (frame[t].current_index + 1) % Len(rpc_urls)
       IN current_rpc_url' = rpc_urls[next_index + 1]
    /\ frame' = [frame EXCEPT ![t] =
           [@ EXCEPT !.pc = IF LoopDone(frame[t].attempt + 1)
                                  THEN "returned" ELSE "loop",
                     !.attempt = @ + 1,
                     !.rotations = @ + 1]]
    /\ UNCHANGED rpc_urls
    /\ UNCHANGED <<fetchVars, procVars, decVars, pnlVars, anVars>>

(***************************************************************************)
(* The client alone: a caller on the main thread makes one call after      *)
(* another.                                                                *)
(***************************************************************************)
Methods == {"getSignaturesForAddress", "getBalance", "getTransaction"}

DirectCall ==
    /\ frame["main"].pc = "idle"
    /\ \E method \in Methods :
         frame' = [frame EXCEPT !["main"] =
                      [CallFrame(method, 0) EXCEPT
                          !.prev_url = frame["main"].prev_url]]
    /\ UNCHANGED <<rpc_urls, current_rpc_url>>
    /\ UNCHANGED <<fetchVars, procVars, decVars, pnlVars, anVars>>

DirectReturn ==
    /\ frame["main"].pc \in {"returned", "raised"}
    /\ frame' = [frame EXCEPT !["main"] =
                    [IdleFrame EXCEPT !.prev_url = current_rpc_url]]
    /\ UNCHANGED <<rpc_urls, current_rpc_url>>
    /\ UNCHANGED <<fetchVars, procVars, decVars, pnlVars, anVars>>

RpcInit ==
    /\ rpc_urls \in UrlLists
    /\ current_rpc_url = rpc_urls[1]
    /\ frame = [t \in Threads |-> IdleFrame]


\* The client of the fetcher, as the other components find it.
DefaultUrls == <<1, 2>>

ClientInit ==
    /\ rpc_urls = DefaultUrls
    /\ current_rpc_url = rpc_urls[1]
    /\ frame = [t \in Threads |-> IdleFrame]

(***************************************************************************)
(* transaction_fetcher.py: TransactionFetcher.fetch_transaction_history    *)
(***************************************************************************)
Last(q) == q[Len(q)]

\* A variant: the list is returned as it is.
NoTrim(all_transactions, max_transactions) == all_transactions

\* Lines 85-86: the list is cut to max_transactions before it is returned.
Trim(all_transactions, max_transactions) ==
    IF Len(all_transactions) > max_transactions
    THEN SubSeq(all_transactions, 1, max_transactions)
    ELSE all_transactions

\* A variant: one iteration more.
MaxIterationsMore(max_transactions, batch_size) ==
    Max(1, max_transactions \div batch_size + 2)

\* Line 34
MaxIterations(max_transactions, batch_size) ==
    Max(1, max_transactions \div batch_size + 1)

IdleFetch ==
    [pc |-> "idle", max_transactions |-> 0, batch_size |-> 1,
     all_transactions |-> <<>>, before_signature |-> 0, max_iterations |-> 1,
     iteration |-> 0, duplicate_count |-> 0, ret |-> <<>>,
     requests |-> 0, pre_dup_len |-> -1, stop |-> None]

\* Lines 32-36: the locals of a call. before_signature 0 is None. requests
\* counts the page requests of the call, pre_dup_len is the length the list had
\* when the present run of duplicate pages began (-1 outside such a run), stop
\* is the reason the loop ended.
FetchCall(max_transactions, batch_size) ==
    [pc |-> "loop", max_transactions |-> max_transactions,
     batch_size |-> batch_size,
     all_transactions |-> <<>>, before_signature |-> 0,
     max_iterations |-> MaxIterations(max_transactions, batch_size),
     iteration |-> 0, duplicate_count |-> 0, ret |-> <<>>,
     requests |-> 0, pre_dup_len |-> -1, stop |-> None]

\* A variant: a failed page request gives up what was accumulated.
FetchReturnNothing(f, all_transactions, why) ==
    [f EXCEPT !.pc = "done",
              !.all_transactions = all_transactions,
              !.ret = IF why = "no_result" THEN <<>>
                      ELSE Trim(all_transactions, f.max_transactions),
              !.stop = why]

\* Leaving the loop: lines 84-89.
FetchReturn(f, all_transactions, why) ==
    [f EXCEPT !.pc = "done",
              !.all_transactions = all_transactions,
              !.ret = Trim(all_transactions, f.max_transactions),
              !.stop = why]

\* Line 58: the page opens with the signature the list ends with.
IsDuplicatePage(all_transactions, transactions) ==
    /\ all_transactions # <<>>
    /\ transactions[1] = Last(all_transactions)

\* Line 60
DuplicateLimit == 3

\* A variant: the counter is never reset.
CountedNoReset(dup, duplicate_count) ==
    IF dup THEN duplicate_count + 1 ELSE duplicate_count

\* Lines 58-64: duplicate_count after the page was looked at.
Counted(dup, duplicate_count) ==
    IF dup THEN duplicate_count + 1 ELSE 0

\* A variant: the cursor is the first signature of the page.
CursorFirst(transactions) == transactions[1]

\* Line 78: before_signature = transactions[-1]["signature"]
Cursor(transactions) == Last(transactions)

\* Lines 39-47: the while test, and the request of the next page.
FetchNextPage ==
    /\ fh.pc = "loop"
    /\ frame["main"].pc = "idle"
    /\ IF /\ fh.iteration < fh.max_iterations
          /\ Len(fh.all_transactions) < fh.max_transactions
       THEN /\ fh' = [fh EXCEPT !.pc = "wait", !.iteration = @ + 1,
                                !.requests = @ + 1]
            /\ frame' = [frame EXCEPT !["main"] =
                   CallFrame("getSignaturesForAddress", fh.before_signature)]
       ELSE /\ fh' = FetchReturn(fh, fh.all_transactions, "cap")
            /\ UNCHANGED frame
    /\ UNCHANGED <<rpc_urls, current_rpc_url, dt>>
    /\ UNCHANGED <<procVars, decVars, pnlVars, anVars>>

\* Lines 48-82: what the loop body does with the answer.
FetchHandlePage ==
    /\ fh.pc = "wait"
    /\ frame["main"].pc \in {"returned", "raised"}
    /\ frame' = [frame EXCEPT !["main"] = IdleFrame]
    /\ UNCHANGED <<rpc_urls, current_rpc_url, dt>>
    /\ UNCHANGED <<procVars, decVars, pnlVars, anVars>>
    /\ LET result == frame["main"].ret
           all == fh.all_transactions
       IN
       IF frame["main"].pc = "raised"
       THEN fh' = FetchReturn(fh, all, "exception")
       ELSE IF result = NoneRec \/ ~result.body.has_result
       THEN fh' = FetchReturn(fh, all, "no_result")
       ELSE LET transactions == result.body.result IN
       IF transactions = <<>>
       THEN fh' = FetchReturn(fh, all, "empty")
       ELSE IF \E i \in 1..Len(transactions) : transactions[i] = 0
       THEN fh' = FetchReturn(fh, all, "exception")      \* KeyError
       ELSE LET dup == IsDuplicatePage(all, transactions)
                duplicate_count == Counted(dup, fh.duplicate_count)
                pre == IF ~dup THEN -1
                       ELSE IF fh.duplicate_count = 0 THEN Len(all)
                       ELSE fh.pre_dup_len
                f1 == [fh EXCEPT !.duplicate_count = duplicate_count,
                                 !.pre_dup_len = pre]
            IN
            IF dup /\ duplicate_count >= DuplicateLimit
            THEN fh' = FetchReturn(f1, all, "duplicates")
            ELSE LET extended == all \o transactions IN
                 IF Len(transactions) < fh.batch_size
                 THEN fh' = FetchReturn(f1, extended, "short_page")
                 ELSE IF Len(extended) >= fh.max_transactions
                 THEN fh' = FetchReturn(f1, extended, "max_reached")
                 ELSE fh' = [f1 EXCEPT !.pc = "loop",
                                       !.all_transactions = extended,
                                       !.before_signature = Cursor(transactions)]

BatchSizes == 1..MaxBatch
MaxCounts == 0..MaxCount

FetchInit ==
    \E m \in MaxCounts, b \in BatchSizes : fh = FetchCall(m, b)


(***************************************************************************)
(* transaction_processor.py: TransactionProcessor.process_transaction and  *)
(* is_within_timeframe                                                     *)
(***************************************************************************)
\* blockTime of a raw detail: the key is absent, or null, or epoch seconds
\* (20 and 200 days before Now).
BlockTimes ==
    {[kind |-> "absent", t |-> 0], [kind |-> "null", t |-> 0],
     [kind |-> "int", t |-> Now - 20 * SecondsPerDay],
     [kind |-> "int", t |-> Now - 200 * SecondsPerDay]}

Fees == {0, 5}

\* instruction.get("programIdIndex") is None, or an integer.
NoIndex(data) == [has_index |-> FALSE, programIdIndex |-> 0, data |-> data]
Instr(i, data) == [has_index |-> TRUE, programIdIndex |-> i, data |-> data]

\* With the keys <<Token, System>>: index 0 is the token program, 1 the system
\* program, 2 is out of range, -1 counts from the end.
Instructions ==
    {NoIndex(Str(P_TRANSFER10)),
     Instr(-1, Str(P_SHORT)),
     Instr(0, Str(P_SHORT)), Instr(0, Str(P_TRANSFER10)), Instr(0, Str(P_BAD)),
     Instr(1, Str(P_SHORT)), Instr(1, Str(P_TRANSFER10)), Instr(1, Str(P_CREATE)),
     Instr(1, NoData),
     Instr(2, Str(P_TRANSFER10))}

InstructionLists == SeqsUpTo(Instructions, MaxInstr)

\* The raw detail of getTransaction, as far as process_transaction reads it.
Detail(sig, bt, fee, instructions, keys) ==
    [signature |-> sig, blockTime |-> bt, fee |-> fee,
     instructions |-> instructions, accountKeys |-> keys]

\* Line 62: transaction_details.get("blockTime", 0)
Timestamp(blockTime) ==
    CASE blockTime.kind = "absent" -> 0
      [] blockTime.kind = "null" -> NoneTime
      [] OTHER -> blockTime.t

\* A variant: the fee is added.
NetAmountPlusFee(amount, fee) == amount + fee

\* Line 103
NetAmount(amount, fee) == amount - fee

\* Lines 109-118
Transaction(signature, timestamp, type, amount, token, fee) ==
    [signature |-> signature, timestamp |-> timestamp, type |-> type,
     amount |-> amount, token |-> token, price |-> 0, fee |-> fee,
     net_amount |-> NetAmount(amount, fee)]

NoTransaction == Transaction(0, 0, None, 0, None, 0)

IdleProcess ==
    [pc |-> "idle", details |-> Detail(0, [kind |-> "absent", t |-> 0], 0, <<>>, <<>>),
     account_keys |-> <<>>, idx |-> 1, transaction_type |-> None, amount |-> 0,
     token |-> "SOL", calls |-> <<>>, left_by |-> None, ret |-> NoTransaction,
     within |-> None]

\* A variant: the type starts as "unknown".
ProcessCallUnknown(details, account_keys) ==
    [pc |-> "loop", details |-> details, account_keys |-> account_keys,
     idx |-> 1, transaction_type |-> "unknown", amount |-> 0, token |-> "SOL",
     calls |-> <<>>, left_by |-> None, ret |-> NoTransaction, within |-> None]

\* Lines 61-72: the locals of a call. idx is the position of the for loop,
\* calls the decode_instruction calls made (position, argument, result),
\* left_by how the loop was left.
ProcessCall(details, account_keys) ==
    [pc |-> "loop", details |-> details, account_keys |-> account_keys,
     idx |-> 1, transaction_type |-> None, amount |-> 0, token |-> "SOL",
     calls |-> <<>>, left_by |-> None, ret |-> NoTransaction, within |-> None]

\* Line 82. A negative index counts from the end of the list and raises
\* IndexError beyond its start.
ProgramId(account_keys, program_id_index) ==
    IF program_id_index < Len(account_keys)
    THEN IF program_id_index >= 0
         THEN [raised |-> FALSE, id |-> account_keys[program_id_index + 1]]
         ELSE IF Len(account_keys) + program_id_index >= 0
         THEN [raised |-> FALSE,
               id |-> account_keys[Len(account_keys) + program_id_index + 1]]
         ELSE [raised |-> TRUE, id |-> "Unknown"]
    ELSE [raised |-> FALSE, id |-> "Unknown"]

\* A variant: the loop is left at the first instruction that did not decode.
BreakOnFailure(p) == [p EXCEPT !.pc = "finish", !.left_by = "break"]

\* Lines 99-100: an instruction that did not decode is logged and the loop
\* goes on.
OnDecodeFailure(p) == [p EXCEPT !.idx = @ + 1]

\* Lines 75-100: one iteration of the loop over the instructions.
ProcessStep(p) ==
    LET instruction == p.details.instructions[p.idx] IN
    IF ~instruction.has_index
    THEN [p EXCEPT !.idx = @ + 1]                              \* continue
    ELSE LET program_id == ProgramId(p.account_keys, instruction.programIdIndex)
         IN
         IF program_id.raised
         THEN [p EXCEPT !.pc = "raised", !.left_by = "raise"]
         ELSE LET decoded_data == decode_instruction(
                      instruction.data, program_id.id, p.account_keys)
                  p1 == [p EXCEPT !.calls = Append(@,
                            [i |-> p.idx, data |-> instruction.data,
                             program_id |-> program_id.id,
                             ret |-> decoded_data])]
              IN
              IF decoded_data # NoneRec
              THEN [p1 EXCEPT
                      !.transaction_type = Get(decoded_data.d, "type", None),
                      !.amount = Get(decoded_data.d, "amount", 0),
                      !.token = Get(decoded_data.d, "token", "SOL"),
                      !.pc = "finish", !.left_by = "break"]
              ELSE OnDecodeFailure(p1)

\* Lines 102-118: after the loop.
ProcessFinish(p) ==
    [p EXCEPT
       !.pc = "done",
       !.left_by = IF p.pc = "finish" THEN p.left_by ELSE "end",
       !.ret = Transaction(p.details.signature, Timestamp(p.details.blockTime),
                           p.transaction_type, p.amount, p.token, p.details.fee)]

InLoop(p) == p.pc = "loop" /\ p.idx <= Len(p.details.instructions)

AfterLoop(p) ==
    \/ p.pc = "finish"
    \/ p.pc = "loop" /\ p.idx > Len(p.details.instructions)

\* A whole call: the frame it ends in, returned ("done") or "raised".
RECURSIVE RunProcess(_)
RunProcess(p) ==
    IF InLoop(p) THEN RunProcess(ProcessStep(p))
    ELSE IF AfterLoop(p) THEN ProcessFinish(p)
    ELSE p

process_transaction(details, account_keys) ==
    RunProcess(ProcessCall(details, account_keys))

ProcessInstruction ==
    /\ InLoop(pt)
    /\ pt' = ProcessStep(pt)
    /\ UNCHANGED <<rpcVars, fetchVars, decVars, pnlVars, anVars>>

ProcessReturn ==
    /\ AfterLoop(pt)
    /\ pt' = ProcessFinish(pt)
    /\ UNCHANGED <<rpcVars, fetchVars, decVars, pnlVars, anVars>>

Timeframes == {"1", "3", "6", "12", "overall"}

\* is_within_timeframe(tx_timestamp, timeframe); timedelta.days is the floor of
\* the difference in days.
is_within_timeframe(tx_timestamp, timeframe) ==
    IF tx_timestamp = NoneTime \/ tx_timestamp = 0
    THEN FALSE
    ELSE LET days == (Now - tx_timestamp) \div SecondsPerDay IN
         CASE timeframe = "1" -> days <= 30
           [] timeframe = "3" -> days <= 90
           [] timeframe = "6" -> days <= 180
           [] timeframe = "12" -> days <= 365
           [] OTHER -> TRUE

\* transaction_fetcher.py line 116: the caller reads the Transaction it got.
CheckTimeframe ==
    /\ pt.pc = "done"
    /\ pt.within = None
    /\ \E timeframe \in Timeframes :
         pt' = [pt EXCEPT !.within =
                   IF is_within_timeframe(pt.ret.timestamp, timeframe)
                   THEN "yes" ELSE "no"]
    /\ UNCHANGED <<rpcVars, fetchVars, decVars, pnlVars, anVars>>

ProcessInit ==
    \E sig \in Sigs, bt \in BlockTimes, fee \in Fees,
       instructions \in InstructionLists, keys \in KeyLists :
        pt = ProcessCall(Detail(sig, bt, fee, instructions, keys), keys)


(***************************************************************************)
(* decode_instruction called over and over, while the endpoint's answer to *)
(* an account lookup changes.                                              *)
(***************************************************************************)
AccountInfos == {"SOL", "USDC", "Unknown"}

\* Lines 149-159: the local "data" the program branches work on, None when
\* the call has ended before them.
DecodedPayload(instruction_data) ==
    IF instruction_data.is_none \/ instruction_data.s = <<>>
    THEN [is_none |-> TRUE, bytes |-> <<>>]
    ELSE safe_base64_decode(instruction_data.s)

ProgramIds == {TOKEN_PROGRAM_ID, SYSTEM_PROGRAM_ID, "Unknown"}

DecodeInput(data, program_id, keys) ==
    [data |-> data, program_id |-> program_id, account_keys |-> keys]

NoCall == [made |-> FALSE, input |-> DecodeInput(NoData, "Unknown", <<>>),
           data |-> DecodedPayload(NoData), ret |-> NoneRec]

\* last is the latest call and its result; kept is one earlier call, chosen at
\* will; between tells that another argument was decoded since kept, moved
\* that the endpoint's answer changed since kept.
IdleDecode == [last |-> NoCall, kept |-> NoCall, between |-> FALSE, moved |-> FALSE]

DecodeCall ==
    /\ \E data \in DataValues, program_id \in ProgramIds, keys \in KeyLists :
         LET input == DecodeInput(data, program_id, keys)
             call == [made |-> TRUE, input |-> input,
                      data |-> DecodedPayload(data),
                      ret |-> decode_instruction(data, program_id, keys)]
         IN \/ /\ ~dec.kept.made
               /\ dec' = [dec EXCEPT !.last = call, !.kept = call]
            \/ dec' = [dec EXCEPT !.last = call,
                          !.between = @ \/ (dec.kept.made /\ input # dec.kept.input)]
    /\ UNCHANGED <<account_info, rpcVars, fetchVars, procVars, pnlVars, anVars>>

AccountInfoChanges ==
    /\ \E a \in AccountInfos \ {account_info} : account_info' = a
    /\ dec' = [dec EXCEPT !.moved = @ \/ dec.kept.made]
    /\ UNCHANGED <<rpcVars, fetchVars, procVars, pnlVars, anVars>>

DecodeInit ==
    /\ account_info \in AccountInfos
    /\ dec = IdleDecode


(***************************************************************************)
(* wallet_analyzer.py: WalletAnalyzer.get_token_price, calculate_pnl and   *)
(* calculate_avg_holding_period                                            *)
(***************************************************************************)
Tokens == {"T1", "T2"}

\* What the price collaborator quotes; 0 is its failure value.
Prices == {0, 5, 8}

\* What the collaborator quotes for a token the market does not list.
OtherPrice == 5

Quote(quotes, token) ==
    IF token \in DOMAIN quotes THEN quotes[token] ELSE OtherPrice

\* @lru_cache(maxsize=128)
lru_maxsize == 128

\* A variant: a cache of one entry less.
KeptShort(age) == age < lru_maxsize - 1

\* A least-recently-used cache of maxsize entries holds a key until maxsize
\* other keys have been used after it.
Kept(age) == age < lru_maxsize

\* A variant: every lookup asks the collaborator.
get_token_price_fresh(cache, quotes, token) ==
    [price |-> Quote(quotes, token), cache |-> cache]

\* @lru_cache(maxsize=128) on get_token_price: the cache holds, for each token
\* it keeps, the price first quoted and its age, the number of distinct other
\* tokens looked up since its latest lookup. A hit makes the token the most
\* recent one; a miss asks the collaborator and drops the entry that is no
\* longer kept.
get_token_price(cache, quotes, token) ==
    IF token \in DOMAIN cache
    THEN [price |-> cache[token].price,
          cache |-> [t \in DOMAIN cache |->
                        IF t = token THEN [cache[t] EXCEPT !.age = 0]
                        ELSE IF cache[t].age < cache[token].age
                        THEN [cache[t] EXCEPT !.age = @ + 1]
                        ELSE cache[t]]]
    ELSE LET kept == {t \in DOMAIN cache : Kept(cache[t].age + 1)}
         IN [price |-> Quote(quotes, token),
             cache |-> [t \in kept \cup {token} |->
                           IF t = token
                           THEN [price |-> Quote(quotes, token), age |-> 0]
                           ELSE [cache[t] EXCEPT !.age = @ + 1]]]

\* datetime.fromtimestamp(ts).strftime('%Y-%m-%d %H:%M:%S'): the day and the
\* time of day; datetime.strptime reads it back.
Strftime(ts) == [date |-> ts \div SecondsPerDay, time |-> ts % SecondsPerDay]
Strptime(d) == d.date * SecondsPerDay + d.time

\* The indices (0-based, ascending) of the entries of one kind: lines 274-275.
RECURSIVE IndicesFrom(_, _, _)
IndicesFrom(dates, kind, i) ==
    IF i > Len(dates) THEN <<>>
    ELSE (IF dates[i].transaction = kind THEN <<i - 1>> ELSE <<>>)
         \o IndicesFrom(dates, kind, i + 1)

RECURSIVE SumSeq(_)
SumSeq(q) == IF q = <<>> THEN 0 ELSE q[1] + SumSeq(Tail(q))

\* Lines 277-285: the holding periods, in seconds, of the zipped pairs that are
\* not skipped.
RECURSIVE HoldingPeriods(_, _, _, _)
HoldingPeriods(dates, buy_indices, sell_indices, k) ==
    IF k > Len(buy_indices) \/ k > Len(sell_indices) THEN <<>>
    ELSE LET buy_idx == buy_indices[k]
             sell_idx == sell_indices[k]
             rest == HoldingPeriods(dates, buy_indices, sell_indices, k + 1)
         IN IF sell_idx <= buy_idx \/ sell_idx >= Len(dates)
            THEN rest
            ELSE <<Strptime(dates[sell_idx + 1].datetime)
                   - Strptime(dates[buy_idx + 1].datetime)>> \o rest

\* calculate_avg_holding_period(buy_sell_dates): the average in minutes is
\* seconds / (60 * count), kept as the fraction num / den; count is the second
\* value returned.
calculate_avg_holding_period(buy_sell_dates) ==
    IF Len(buy_sell_dates) < 2
    THEN [num |-> 0, den |-> 1, count |-> 0]
    ELSE LET holding_periods ==
                 HoldingPeriods(buy_sell_dates,
                                IndicesFrom(buy_sell_dates, "buy", 1),
                                IndicesFrom(buy_sell_dates, "sell", 1), 1)
         IN IF holding_periods = <<>>
            THEN [num |-> 0, den |-> 1, count |-> 0]
            ELSE [num |-> SumSeq(holding_periods),
                  den |-> 60 * Len(holding_periods),
                  count |-> Len(holding_periods)]

NoAssets == [t \in {} |-> 0]

\* A variant: every position is dropped.
WithoutAny(bought_assets, token) == NoAssets

\* Line 229: del bought_assets[token]
Without(bought_assets, token) ==
    [t \in DOMAIN bought_assets \ {token} |-> bought_assets[t]]

With(bought_assets, token, asset) ==
    [t \in DOMAIN bought_assets \cup {token} |->
        IF t = token THEN asset ELSE bought_assets[t]]

NoHolding == [num |-> 0, den |-> 1, count |-> -1]

IdlePnl ==
    [pc |-> "idle", stream |-> <<>>, i |-> 1, realized_pnl |-> 0,
     unrealized_pnl |-> 0, profitable_trades |-> 0, total_trades |-> 0,
     buy_sell_dates |-> <<>>, bought_assets |-> NoAssets, total_pnl |-> 0,
     win_rate |-> [num |-> 0, den |-> 1], quoted |-> <<>>,
     holding |-> NoHolding]

\* Lines 187-193: the locals of a call. i is the position of the for loop;
\* quoted lists what the collaborator quoted for the token of each transaction
\* at the moment the loop reached it.
PnlCall(processed_transactions) ==
    [IdlePnl EXCEPT !.pc = "scan", !.stream = processed_transactions]

\* Line 246: profitable_trades / total_trades * 100, as a fraction.
WinRate(profitable_trades, total_trades) ==
    IF total_trades > 0
    THEN [num |-> profitable_trades * 100, den |-> total_trades]
    ELSE [num |-> 0, den |-> 1]

\* A variant: the sell without a position falls through to line 235.
OnNoPositionCounted(seen) == [seen EXCEPT !.total_trades = @ + 1]

\* Lines 222-224: a sell of a token that is not in bought_assets is logged
\* and the loop goes on with the next transaction.
OnNoPosition(seen) == seen

\* Lines 195-235: one iteration of the loop over the transactions: the locals
\* and the cache after it.
PnlStep(p, cache, quotes) ==
    LET transaction == p.stream[p.i]
        next == [p EXCEPT !.i = @ + 1]
    IN
    IF transaction.type = "buy"
    THEN LET amount == transaction.amount
             look == get_token_price(cache, quotes, transaction.token)
             price == look.price
             seen == [next EXCEPT !.quoted = Append(@, Quote(quotes, transaction.token))]
         IN [cache |-> look.cache,
             pnl |->
               IF price = 0
               THEN seen                                          \* continue
               ELSE IF transaction.timestamp = NoneTime
               THEN [seen EXCEPT !.pc = "raised"]                 \* TypeError
               ELSE [seen EXCEPT
                       !.unrealized_pnl = @ - amount * price,
                       !.bought_assets = With(@, transaction.token,
                           [price |-> price, amount |-> amount,
                            timestamp |-> transaction.timestamp]),
                       !.buy_sell_dates = Append(@,
                           [transaction |-> "buy",
                            datetime |-> Strftime(transaction.timestamp)]),
                       !.total_trades = @ + 1]]
    ELSE IF transaction.type = "sell"
    THEN LET amount == transaction.amount
             look == get_token_price(cache, quotes, transaction.token)
             price == look.price
             seen == [next EXCEPT !.quoted = Append(@, Quote(quotes, transaction.token))]
         IN [cache |-> look.cache,
             pnl |->
               IF price = 0
               THEN seen                                          \* continue
               ELSE IF transaction.token \notin DOMAIN p.bought_assets
               THEN OnNoPosition(seen)                            \* continue
               ELSE IF transaction.timestamp = NoneTime
               THEN [seen EXCEPT !.pc = "raised"]                 \* TypeError
               ELSE LET buy_price == p.bought_assets[transaction.token].price
                    IN [seen EXCEPT
                          !.realized_pnl = @ + amount * price - amount * buy_price,
                          !.profitable_trades =
                              @ + (IF price > buy_price THEN 1 ELSE 0),
                          !.bought_assets = Without(@, transaction.token),
                          !.buy_sell_dates = Append(@,
                              [transaction |-> "sell",
                               datetime |-> Strftime(transaction.timestamp)]),
                          !.total_trades = @ + 1]]
    ELSE [cache |-> cache,
          pnl |-> [next EXCEPT !.quoted = Append(@, 0),
                               !.total_trades = @ + 1]]           \* line 235

PnlScan ==
    /\ pnl.pc = "scan"
    /\ pnl.i <= Len(pnl.stream)
    /\ LET step == PnlStep(pnl, token_price_cache, market)
       IN /\ pnl' = step.pnl
          /\ token_price_cache' = step.cache
    /\ UNCHANGED <<market, rpcVars, fetchVars, procVars, decVars, anVars>>

\* Lines 238-243: the open positions, marked at the price looked up now.
RECURSIVE UnrealizedOf(_, _, _, _)
UnrealizedOf(bought_assets, cache, quotes, unrealized_pnl) ==
    IF DOMAIN bought_assets = {}
    THEN [unrealized_pnl |-> unrealized_pnl, cache |-> cache]
    ELSE LET token == CHOOSE t \in DOMAIN bought_assets : TRUE
             asset == bought_assets[token]
             look == get_token_price(cache, quotes, token)
             current_price == look.price
         IN UnrealizedOf(Without(bought_assets, token), look.cache, quotes,
                IF current_price = 0
                THEN unrealized_pnl
                ELSE unrealized_pnl + asset.amount * (current_price - asset.price))

\* Lines 237-248: after the loop.
PnlEnd(p, cache, quotes) ==
    LET u == UnrealizedOf(p.bought_assets, cache, quotes, p.unrealized_pnl)
    IN [cache |-> u.cache,
        pnl |-> [p EXCEPT
                   !.pc = "done",
                   !.unrealized_pnl = u.unrealized_pnl,
                   !.total_pnl = p.realized_pnl + u.unrealized_pnl,
                   !.win_rate = WinRate(p.profitable_trades, p.total_trades)]]

PnlFinish ==
    /\ pnl.pc = "scan"
    /\ pnl.i > Len(pnl.stream)
    /\ LET end == PnlEnd(pnl, token_price_cache, market)
       IN /\ pnl' = end.pnl
          /\ token_price_cache' = end.cache
    /\ UNCHANGED <<market, rpcVars, fetchVars, procVars, decVars, anVars>>

\* A whole call of calculate_pnl on an empty cache, the collaborator quoting
\* quoted[i] for the token of the i-th transaction when the loop reaches it and
\* final after the loop: the locals it ends with.
RECURSIVE RunPnl(_, _, _, _)
RunPnl(p, cache, quoted, final) ==
    IF p.pc # "scan" THEN p
    ELSE IF p.i > Len(p.stream) THEN PnlEnd(p, cache, final).pnl
    ELSE LET step == PnlStep(p, cache,
                         [t \in {p.stream[p.i].token} |-> quoted[p.i]])
         IN RunPnl(step.pnl, step.cache, quoted, final)

calculate_pnl(processed_transactions, quoted, final) ==
    RunPnl(PnlCall(processed_transactions), NoAssets, quoted, final)

\* analyze_wallet line 87: the holding period of the events calculate_pnl
\* returned.
HoldingPeriod ==
    /\ pnl.pc = "done"
    /\ pnl.holding = NoHolding
    /\ pnl' = [pnl EXCEPT !.holding = calculate_avg_holding_period(pnl.buy_sell_dates)]
    /\ UNCHANGED <<market, token_price_cache, rpcVars, fetchVars, procVars,
                   decVars, anVars>>

\* The collaborator's quote of a token moves while a stream is scanned.
PriceMoves ==
    /\ pnl.pc = "scan"
    /\ \E token \in Tokens :
         \E price \in Prices \ {market[token]} :
             market' = [market EXCEPT ![token] = price]
    /\ UNCHANGED <<pnl, token_price_cache, rpcVars, fetchVars, procVars,
                   decVars, anVars>>

\* The streams: transactions 10 minutes apart, in ascending or descending order
\* of time.
Shapes ==
    {<<"buy", "T1", 10>>, <<"sell", "T1", 10>>, <<"buy", "T2", 10>>,
     <<"sell", "T2", 10>>, <<"buy", "T1", 3>>, <<"transfer", "SOL", 10>>,
     <<None, "SOL", 0>>}

StreamTime(i) == Now - 600000 + 600 * i

StreamOf(shapes, ascending) ==
    [i \in 1..Len(shapes) |->
        Transaction(i,
                    IF ascending THEN StreamTime(i)
                    ELSE StreamTime(Len(shapes) + 1 - i),
                    shapes[i][1], shapes[i][3], shapes[i][2], 0)]

\* A token that no other transaction of a stream names.
OtherToken(n) == "X" \o ToString(n)

\* n sells of n tokens the wallet never bought.
Others(n) == [i \in 1..n |-> <<"sell", OtherToken(i), 10>>]

\* A buy and a sell of T1 with as many other tokens priced in between as the
\* price cache holds, or one less, and up to MaxStream - 1 transfers around
\* them.
Transfers == SeqsUpTo({<<"transfer", "SOL", 10>>}, MaxStream - 1)

LongShapes ==
    {before \o <<(<<"buy", "T1", 10>>)>> \o Others(n)
        \o <<(<<"sell", "T1", 10>>)>> \o after :
        n \in {lru_maxsize - 1, lru_maxsize},
        before \in Transfers, after \in Transfers}

\* Streams over two tokens at once: one token bought and sold while another
\* is held, and a token sold, bought and sold.
TwoTokenShapes ==
    {<<(<<"buy", "T2", 10>>), (<<"buy", "T1", 10>>), (<<"sell", "T1", 10>>)>>,
     <<(<<"buy", "T1", 10>>), (<<"buy", "T2", 10>>), (<<"sell", "T2", 10>>),
       (<<"sell", "T1", 10>>)>>,
     <<(<<"sell", "T1", 10>>), (<<"buy", "T1", 10>>), (<<"sell", "T1", 10>>)>>}

Streams ==
    {StreamOf(shapes, asc) : shapes \in SeqsUpTo(Shapes, MaxStream),
                             asc \in BOOLEAN}
      \cup {StreamOf(shapes, asc) : shapes \in TwoTokenShapes, asc \in BOOLEAN}
      \cup {StreamOf(shapes, TRUE) : shapes \in LongShapes}

PnlInit ==
    /\ market \in [Tokens -> Prices]
    /\ token_price_cache = NoAssets
    /\ pnl \in {PnlCall(stream) : stream \in Streams}

(***************************************************************************)
(* wallet_analyzer.py: WalletAnalyzer.analyze_wallet, check_wallet_capital *)
(* and process_transactions_concurrently; transaction_fetcher.py:          *)
(* fetch_wallet_balance and fetch_transaction_details                      *)
(***************************************************************************)
Wallet == "W"

\* What the price collaborator quotes for SOL; 0 is its failure value.
SolPrices == {0, 100}

\* The arguments of analyze_wallet.
Setting(timeframe, capital, holding, win_rate, total_pnl) ==
    [timeframe |-> timeframe, minimum_wallet_capital |-> capital,
     minimum_avg_holding_period |-> holding, minimum_win_rate |-> win_rate,
     minimum_total_pnl |-> total_pnl]

Settings ==
    {Setting("overall", 0, 0, 0, 0), Setting("1", 150, 0, 0, 0),
     Setting("1", 0, 1, 0, 0), Setting("3", 0, 0, 50, 0),
     Setting("overall", 0, 0, 0, 1)}

\* fetch_transaction_history(wallet_address): the default of max_transactions,
\* and the batch_size of the fetcher WalletAnalyzer constructs.
DefaultMaxTransactions == 50
DefaultBatchSize == 2

\* fetch_transaction_details(transaction_id): the default of retries.
DetailRetries == 3

Skipped == [tag |-> "None"]

\* The result of a task that has not returned.
Pending == [tag |-> "pending"]

IdleWorker == [pc |-> "idle", i |-> 0, attempt |-> 0]

NoCache == [k \in {} |-> 0]

\* A variant: nothing is stored.
CachedNothing(cache, key, value) == cache

\* @lru_cache (transaction_fetcher.py lines 130 and 166): the value a call
\* returned is stored under its argument.
Cached(cache, key, value) ==
    [k \in DOMAIN cache \cup {key} |-> IF k = key THEN value ELSE cache[k]]

\* The frame of analyze_wallet. sol_balance, sol_to_usd and wallet_balance_usd
\* are the locals of check_wallet_capital (-1 before they are assigned);
\* results[i] is what fetch_and_process returned for transactions[i] and
\* details[i] what its fetch_transaction_details call returned (Pending before
\* it returned), next the first task no pool thread has taken; balance_calls, history_calls and
\* detail_calls count the post_request calls of this run for getBalance, for
\* getSignaturesForAddress (once fetch_transaction_history has returned) and
\* for getTransaction; history_failed notes that fetch_transaction_history
\* left its loop on a failed page request, balance_failed that the getBalance
\* request of this run failed.
IdleAnalyze ==
    [pc |-> "idle", wallet_address |-> Wallet,
     settings |-> Setting("overall", 0, 0, 0, 0),
     sol_balance |-> -1, sol_to_usd |-> -1, wallet_balance_usd |-> -1,
     transactions |-> <<>>, results |-> <<>>, details |-> <<>>, next |-> 1,
     processed_transactions |-> <<>>, ret |-> NoneRec, reason |-> None,
     balance_calls |-> 0, history_calls |-> 0, detail_calls |-> 0,
     history_failed |-> FALSE, balance_failed |-> FALSE, runs |-> 0]

\* A variant: every balance is sufficient.
SufficientAlways(wallet_balance_usd, minimum_capital_usd) == TRUE

\* Line 143
Sufficient(wallet_balance_usd, minimum_capital_usd) ==
    wallet_balance_usd >= minimum_capital_usd

\* Lines 62-63 and 132-133: analyze_wallet is entered and check_wallet_capital
\* asks for the balance, which the lru_cache of fetch_wallet_balance may hold.
AnalyzeStart ==
    /\ an.pc \in {"idle", "done"}
    /\ an.runs < MaxRuns
    /\ frame["main"].pc = "idle"
    /\ \E settings \in Settings :
         LET a == [IdleAnalyze EXCEPT !.settings = settings,
                                      !.runs = an.runs + 1]
         IN IF Wallet \in DOMAIN balance_cache
            THEN /\ an' = [a EXCEPT !.pc = "capital",
                                    !.sol_balance = balance_cache[Wallet]]
                 /\ UNCHANGED frame
            ELSE /\ an' = [a EXCEPT !.pc = "balance", !.balance_calls = 1]
                 /\ frame' = [frame EXCEPT !["main"] =
                                  CallFrame("getBalance", 0)]
    /\ fh' = IdleFetch
    /\ pnl' = IdlePnl
    /\ UNCHANGED dt
    /\ UNCHANGED <<rpc_urls, current_rpc_url, market, token_price_cache, wk,
                   details_cache, balance_cache, sol_price_cache>>
    /\ UNCHANGED <<procVars, decVars>>

\* fetch_wallet_balance lines 175-186: the balance in SOL of an answer.
SolBalance(f) ==
    IF f.pc = "raised" THEN 0
    ELSE IF f.ret = NoneRec \/ ~f.ret.body.has_result THEN 0
    ELSE f.ret.body.result[1] \div E9

\* Lines 63-78 and 133-143: the rest of check_wallet_capital, and what
\* analyze_wallet does with its answer: it returns None, or enters
\* fetch_transaction_history.
CheckWalletCapital ==
    /\ \/ an.pc = "capital"
       \/ an.pc = "balance" /\ frame["main"].pc \in {"returned", "raised"}
    /\ \E quote \in SolPrices :
         LET sol_balance == IF an.pc = "capital" THEN an.sol_balance
                            ELSE SolBalance(frame["main"])
             sol_to_usd == IF sol_price_cache = <<>> THEN quote
                           ELSE sol_price_cache[1]
             wallet_balance_usd == sol_balance * sol_to_usd
             a == [an EXCEPT !.sol_balance = sol_balance,
                             !.sol_to_usd = sol_to_usd,
                             !.balance_failed =
                                 /\ an.pc = "balance"
                                 /\ \/ frame["main"].pc = "raised"
                                    \/ frame["main"].ret = NoneRec
                                    \/ ~frame["main"].ret.body.has_result]
         IN /\ balance_cache' = Cached(balance_cache, Wallet, sol_balance)
            /\ sol_price_cache' = <<sol_to_usd>>
            /\ IF sol_to_usd = 0
               THEN /\ an' = [a EXCEPT !.pc = "done", !.ret = NoneRec,
                                       !.reason = "no_price"]
                    /\ UNCHANGED fh
               ELSE IF ~Sufficient(wallet_balance_usd,
                                   an.settings.minimum_wallet_capital)
               THEN /\ an' = [a EXCEPT !.pc = "done", !.ret = NoneRec,
                                       !.wallet_balance_usd = wallet_balance_usd,
                                       !.reason = "capital"]
                    /\ UNCHANGED fh
               ELSE /\ an' = [a EXCEPT !.pc = "history",
                                       !.wallet_balance_usd = wallet_balance_usd]
                    /\ fh' = FetchCall(DefaultMaxTransactions, DefaultBatchSize)
    /\ frame' = [frame EXCEPT !["main"] = IdleFrame]
    /\ UNCHANGED dt
    /\ UNCHANGED <<rpc_urls, current_rpc_url, pnl, market, token_price_cache,
                   wk, details_cache>>
    /\ UNCHANGED <<procVars, decVars>>

\* Lines 69-78: the result of a wallet without history.
EmptyResult(wallet_address) ==
    [tag |-> "result", address |-> wallet_address, total_pnl |-> 0,
     realized_pnl |-> 0, unrealized_pnl |-> 0,
     win_rate |-> [num |-> 0, den |-> 1], has_settings |-> FALSE,
     settings |-> NoneRec, has_trades |-> FALSE, trades |-> <<>>,
     buy_sell_dates |-> <<>>]

\* Lines 68-80: fetch_transaction_history has returned.
AnalyzeHistory ==
    /\ an.pc = "history"
    /\ fh.pc = "done"
    /\ IF fh.ret = <<>>
       THEN an' = [an EXCEPT !.pc = "done", !.reason = "no_history",
                             !.history_calls = fh.requests,
                             !.history_failed = fh.stop = "no_result",
                             !.ret = EmptyResult(an.wallet_address)]
       ELSE an' = [an EXCEPT !.pc = "processing",
                             !.history_calls = fh.requests,
                             !.history_failed = fh.stop = "no_result",
                             !.transactions = fh.ret,
                             !.results = [i \in 1..Len(fh.ret) |-> Pending],
                             !.details = [i \in 1..Len(fh.ret) |-> Pending],
                             !.next = 1]
    /\ fh' = IdleFetch
    /\ UNCHANGED dt
    /\ UNCHANGED <<rpcVars, procVars, decVars, pnlVars, wk,
                   details_cache, balance_cache, sol_price_cache>>

\* Lines 162-172 once the details are there: a detail that is None is skipped,
\* an exception of process_transaction is caught.
FetchAndProcess(details) ==
    IF details = NoneRec THEN Skipped
    ELSE LET p == process_transaction(details, details.accountKeys)
         IN IF p.pc = "raised" THEN Skipped ELSE p.ret

\* A variant: the results are listed in the order the tasks return.
CompletionResult(results, i, value) ==
    LET first == CHOOSE k \in 1..Len(results) :
                     /\ results[k] = Pending
                     /\ \A j \in 1..(k - 1) : results[j] # Pending
    IN [results EXCEPT ![first] = value]

\* Line 175: executor.map yields the result of the i-th task as its i-th
\* item, whenever the task returned.
MapResult(results, i, value) == [results EXCEPT ![i] = value]

\* A pool thread takes the next task of executor.map and enters
\* fetch_transaction_details, which its lru_cache may answer.
WorkerTake(w) ==
    /\ an.pc = "processing"
    /\ wk[w].pc = "idle"
    /\ an.next <= Len(an.transactions)
    /\ LET i == an.next
           sig == an.transactions[i]
       IN IF sig \in DOMAIN details_cache
          THEN /\ an' = [an EXCEPT
                            !.next = @ + 1,
                            !.details[i] = details_cache[sig],
                            !.results = MapResult(@, i,
                                FetchAndProcess(details_cache[sig]))]
               /\ UNCHANGED <<wk, frame>>
          ELSE /\ an' = [an EXCEPT !.next = @ + 1, !.detail_calls = @ + 1]
               /\ wk' = [wk EXCEPT ![w] = [pc |-> "wait", i |-> i, attempt |-> 0]]
               /\ frame' = [frame EXCEPT ![w] = CallFrame("getTransaction", sig)]
    /\ UNCHANGED <<rpc_urls, current_rpc_url, details_cache, balance_cache,
                   sol_price_cache>>
    /\ UNCHANGED <<fetchVars, procVars, decVars, pnlVars>>

\* A variant: a result that is null is invalid too.
InvalidResponseOrNull(f) ==
    \/ f.pc = "raised"
    \/ f.ret = NoneRec
    \/ ~f.ret.body.has_result
    \/ f.ret.body.result = NoneRec

\* Lines 144-149: post_request raised, returned None, or a body without
\* "result".
InvalidResponse(f) ==
    \/ f.pc = "raised"
    \/ f.ret = NoneRec
    \/ ~f.ret.body.has_result

\* fetch_transaction_details lines 142-163 after post_request has returned,
\* and the rest of fetch_and_process.
WorkerHandle(w) ==
    /\ wk[w].pc = "wait"
    /\ frame[w].pc \in {"returned", "raised"}
    /\ LET f == frame[w]
           i == wk[w].i
           sig == an.transactions[i]
           invalid == InvalidResponse(f)
           attempt == wk[w].attempt + 1
       IN IF invalid /\ attempt < DetailRetries
          THEN /\ wk' = [wk EXCEPT ![w].attempt = attempt]
               /\ frame' = [frame EXCEPT ![w] = CallFrame("getTransaction", sig)]
               /\ an' = [an EXCEPT !.detail_calls = @ + 1]
               /\ UNCHANGED details_cache
          ELSE LET details == IF invalid THEN NoneRec ELSE f.ret.body.result
               IN /\ wk' = [wk EXCEPT ![w] = IdleWorker]
                  /\ frame' = [frame EXCEPT ![w] = IdleFrame]
                  /\ details_cache' = Cached(details_cache, sig, details)
                  /\ an' = [an EXCEPT
                               !.details[i] = details,
                               !.results = MapResult(@, i, FetchAndProcess(details))]
    /\ UNCHANGED <<rpc_urls, current_rpc_url, balance_cache, sol_price_cache>>
    /\ UNCHANGED <<fetchVars, procVars, decVars, pnlVars>>

\* Line 177
RECURSIVE NotNone(_)
NotNone(results) ==
    IF results = <<>> THEN <<>>
    ELSE (IF Head(results) = Skipped THEN <<>> ELSE <<Head(results)>>)
         \o NotNone(Tail(results))

\* Lines 174-177 and 80-85: the pool is done; analyze_wallet returns None or
\* enters calculate_pnl.
AnalyzeCollect ==
    /\ an.pc = "processing"
    /\ an.next > Len(an.transactions)
    /\ \A w \in Workers : wk[w].pc = "idle"
    /\ LET processed_transactions == NotNone(an.results)
       IN IF processed_transactions = <<>>
          THEN /\ an' = [an EXCEPT !.pc = "done", !.ret = NoneRec,
                                   !.reason = "no_valid"]
               /\ UNCHANGED pnl
          ELSE /\ an' = [an EXCEPT !.pc = "pnl",
                            !.processed_transactions = processed_transactions]
               /\ pnl' = PnlCall(processed_transactions)
    /\ UNCHANGED <<rpcVars, fetchVars, procVars, decVars, market,
                   token_price_cache, wk, details_cache, balance_cache,
                   sol_price_cache>>

\* a / b < m, for b > 0
Below(fraction, m) == fraction.num < m * fraction.den

\* Lines 89-121: the thresholds and the result.
AnalyzeThresholds ==
    /\ an.pc = "pnl"
    /\ \/ pnl.pc = "raised"
       \/ pnl.pc = "done" /\ pnl.holding # NoHolding
    /\ LET st == an.settings IN
       IF pnl.pc = "raised"
       THEN an' = [an EXCEPT !.pc = "done", !.ret = [tag |-> "raised"],
                             !.reason = "raised"]
       ELSE IF \/ Below(pnl.win_rate, st.minimum_win_rate)
               \/ pnl.total_pnl < st.minimum_total_pnl
       THEN an' = [an EXCEPT !.pc = "done", !.ret = NoneRec,
                             !.reason = "win_rate_or_pnl"]
       ELSE IF Below(pnl.holding, st.minimum_avg_holding_period)
       THEN an' = [an EXCEPT !.pc = "done", !.ret = NoneRec,
                             !.reason = "holding_period"]
       ELSE an' = [an EXCEPT !.pc = "done", !.reason = "result",
                     !.ret = [tag |-> "result", address |-> an.wallet_address,
                              total_pnl |-> pnl.total_pnl,
                              realized_pnl |-> pnl.realized_pnl,
                              unrealized_pnl |-> pnl.unrealized_pnl,
                              win_rate |-> pnl.win_rate,
                              has_settings |-> TRUE, settings |-> st,
                              has_trades |-> TRUE,
                              trades |-> pnl.buy_sell_dates,
                              buy_sell_dates |-> <<>>]]
    /\ UNCHANGED <<rpcVars, fetchVars, procVars, decVars, pnlVars, wk,
                   details_cache, balance_cache, sol_price_cache>>

AnalyzeIdle ==
    /\ an = IdleAnalyze
    /\ wk = [w \in Workers |-> IdleWorker]
    /\ details_cache = NoCache
    /\ balance_cache = NoCache
    /\ sol_price_cache = <<>>

(***************************************************************************)
(* transaction_fetcher.py: fetch_transaction_details behind its lru_cache, *)
(* called for one signature after another on the main thread               *)
(***************************************************************************)
\* Between two calls the caller looks up signatures other than those of Sigs,
\* each for the first time: one, or as many as fill the cache but for two
\* entries.
Bursts == {1, lru_maxsize - 2}

NotKnown == [known |-> FALSE, value |-> NoneRec, age |-> 0]

\* The frame of fetch_transaction_details(sig): attempt is its local, calls
\* counts its post_request calls, ret is what it returned. known holds what the
\* latest call for each signature returned; since and out tell, for each such
\* signature, which signatures of Sigs and how many others were looked up
\* after it; before is what known and they held for sig when the call began;
\* bursts counts the bursts of other lookups.
IdleDetails ==
    [pc |-> "idle", sig |-> 0, attempt |-> 0, ret |-> NoneRec, calls |-> 0,
     before |-> NotKnown, known |-> NoCache, since |-> NoCache, out |-> NoCache,
     bursts |-> 0]

\* The distinct signatures looked up since the latest lookup of s.
Age(d, s) == Cardinality(d.since[s]) + d.out[s]

Evict(cache, d) ==
    [k \in {x \in DOMAIN cache : Kept(Age(d, x))} |-> cache[k]]

\* fetch_transaction_details(s) has returned value: the bookkeeping.
Returned(d, s, value) ==
    [d EXCEPT !.pc = "done", !.ret = value,
              !.known = Cached(d.known, s, value),
              !.since = [k \in DOMAIN d.known \cup {s} |->
                            IF k = s THEN {} ELSE d.since[k] \cup {s}],
              !.out = [k \in DOMAIN d.known \cup {s} |->
                            IF k = s THEN 0 ELSE d.out[k]]]

\* fetch_transaction_details(sig) is called: the cache answers, or the
\* function is entered (lines 141-144).
DetailsCall ==
    /\ dt.pc \in {"idle", "done"}
    /\ frame["main"].pc = "idle"
    /\ \E sig \in Sigs :
         LET d == [dt EXCEPT
                      !.sig = sig, !.attempt = 0, !.calls = 0,
                      !.before = IF sig \in DOMAIN dt.known
                                 THEN [known |-> TRUE, value |-> dt.known[sig],
                                       age |-> Age(dt, sig)]
                                 ELSE NotKnown]
         IN IF sig \in DOMAIN details_cache
            THEN /\ dt' = Returned(d, sig, details_cache[sig])
                 /\ UNCHANGED frame
            ELSE /\ dt' = [d EXCEPT !.pc = "wait", !.calls = 1]
                 /\ frame' = [frame EXCEPT !["main"] =
                                  CallFrame("getTransaction", sig)]
    /\ UNCHANGED <<rpc_urls, current_rpc_url, fh, details_cache>>
    /\ UNCHANGED <<an, wk, balance_cache, sol_price_cache>>
    /\ UNCHANGED <<procVars, decVars, pnlVars>>

\* Lines 145-163: post_request has returned; the value returned is stored in
\* the cache, which drops its least recently used entry when it is full.
DetailsHandle ==
    /\ dt.pc = "wait"
    /\ frame["main"].pc \in {"returned", "raised"}
    /\ LET f == frame["main"]
           invalid == InvalidResponse(f)
           attempt == dt.attempt + 1
       IN IF invalid /\ attempt < DetailRetries
          THEN /\ dt' = [dt EXCEPT !.attempt = attempt, !.calls = @ + 1]
               /\ frame' = [frame EXCEPT !["main"] =
                                CallFrame("getTransaction", dt.sig)]
               /\ UNCHANGED details_cache
          ELSE LET value == IF invalid THEN NoneRec ELSE f.ret.body.result
                   d == Returned([dt EXCEPT !.attempt = IF invalid THEN attempt
                                                        ELSE @],
                                 dt.sig, value)
               IN /\ dt' = d
                  /\ frame' = [frame EXCEPT !["main"] = IdleFrame]
                  /\ details_cache' =
                         Evict(Cached(details_cache, dt.sig, value), d)
    /\ UNCHANGED <<rpc_urls, current_rpc_url, fh>>
    /\ UNCHANGED <<an, wk, balance_cache, sol_price_cache>>
    /\ UNCHANGED <<procVars, decVars, pnlVars>>

\* n signatures outside Sigs are looked up, one call after another.
OtherLookups ==
    /\ dt.pc \in {"idle", "done"}
    /\ dt.bursts < MaxBursts
    /\ \E n \in Bursts :
         LET d == [dt EXCEPT !.bursts = @ + 1,
                             !.out = [k \in DOMAIN dt.out |->
                                         Min(lru_maxsize, dt.out[k] + n)]]
         IN /\ dt' = d
            /\ details_cache' = Evict(details_cache, d)
    /\ UNCHANGED <<rpcVars, fh>>
    /\ UNCHANGED <<an, wk, balance_cache, sol_price_cache>>
    /\ UNCHANGED <<procVars, decVars, pnlVars>>

(***************************************************************************)
(* Specifications                                                          *)
(***************************************************************************)
IdleMarket == [t \in Tokens |-> 0]

\* The client alone.
SpecRpcInit ==
    /\ RpcInit
    /\ fh = IdleFetch /\ dt = IdleDetails /\ pt = IdleProcess
    /\ account_info = "Unknown" /\ dec = IdleDecode
    /\ pnl = IdlePnl /\ market = IdleMarket /\ token_price_cache = NoAssets
    /\ AnalyzeIdle

SpecRpcNext ==
    \/ DirectCall
    \/ PostRequestAttempt("main")
    \/ DirectReturn

SpecRpc == SpecRpcInit /\ [][SpecRpcNext]_vars

\* fetch_transaction_history alone.
SpecFetchInit ==
    /\ ClientInit
    /\ FetchInit /\ dt = IdleDetails /\ pt = IdleProcess
    /\ account_info = "Unknown" /\ dec = IdleDecode
    /\ pnl = IdlePnl /\ market = IdleMarket /\ token_price_cache = NoAssets
    /\ AnalyzeIdle

SpecFetchNext ==
    \/ FetchNextPage
    \/ PostRequestAttempt("main")
    \/ FetchHandlePage

SpecFetch == SpecFetchInit /\ [][SpecFetchNext]_vars

\* decode_instruction alone.
SpecDecodeInit ==
    /\ ClientInit
    /\ fh = IdleFetch /\ dt = IdleDetails /\ pt = IdleProcess
    /\ DecodeInit
    /\ pnl = IdlePnl /\ market = IdleMarket /\ token_price_cache = NoAssets
    /\ AnalyzeIdle

SpecDecodeNext ==
    \/ DecodeCall
    \/ AccountInfoChanges

SpecDecode == SpecDecodeInit /\ [][SpecDecodeNext]_vars

\* process_transaction and the caller's timeframe check.
SpecProcInit ==
    /\ ClientInit
    /\ fh = IdleFetch /\ dt = IdleDetails /\ ProcessInit
    /\ account_info = "Unknown" /\ dec = IdleDecode
    /\ pnl = IdlePnl /\ market = IdleMarket /\ token_price_cache = NoAssets
    /\ AnalyzeIdle

SpecProcNext ==
    \/ ProcessInstruction
    \/ ProcessReturn
    \/ CheckTimeframe

SpecProc == SpecProcInit /\ [][SpecProcNext]_vars

\* calculate_pnl and calculate_avg_holding_period.
SpecPnlInit ==
    /\ ClientInit
    /\ fh = IdleFetch /\ dt = IdleDetails /\ pt = IdleProcess
    /\ account_info = "Unknown" /\ dec = IdleDecode
    /\ PnlInit
    /\ AnalyzeIdle

SpecPnlNext ==
    \/ PnlScan
    \/ PnlFinish
    \/ HoldingPeriod
    \/ PriceMoves

SpecPnl == SpecPnlInit /\ [][SpecPnlNext]_vars

\* The pool threads inside post_request at the same time.
SpecPoolInit ==
    /\ RpcInit
    /\ fh = IdleFetch /\ dt = IdleDetails /\ pt = IdleProcess
    /\ account_info = "Unknown" /\ dec = IdleDecode
    /\ pnl = IdlePnl /\ market = IdleMarket /\ token_price_cache = NoAssets
    /\ AnalyzeIdle

SpecPoolNext ==
    \/ \E t \in Workers : PoolTaskCall(t)
    \/ \E t \in Workers : PostRequestSend(t)
    \/ \E t \in Workers : SwitchRead(t)
    \/ \E t \in Workers : SwitchWrite(t)

SpecPool == SpecPoolInit /\ [][SpecPoolNext]_vars

\* analyze_wallet, from the capital check to the result.
SpecAnalyzeInit ==
    /\ ClientInit
    /\ fh = IdleFetch /\ dt = IdleDetails /\ pt = IdleProcess
    /\ account_info = "Unknown" /\ dec = IdleDecode
    /\ pnl = IdlePnl /\ market = IdleMarket /\ token_price_cache = NoAssets
    /\ AnalyzeIdle

SpecAnalyzeNext ==
    \/ AnalyzeStart
    \/ \E t \in Threads : PostRequestAttempt(t)
    \/ CheckWalletCapital
    \/ FetchNextPage
    \/ FetchHandlePage
    \/ AnalyzeHistory
    \/ \E w \in Workers : WorkerTake(w)
    \/ \E w \in Workers : WorkerHandle(w)
    \/ AnalyzeCollect
    \/ PnlScan
    \/ PnlFinish
    \/ HoldingPeriod
    \/ AnalyzeThresholds

SpecAnalyze == SpecAnalyzeInit /\ [][SpecAnalyzeNext]_vars

\* fetch_transaction_details alone.
SpecDetailsInit ==
    /\ ClientInit
    /\ fh = IdleFetch /\ dt = IdleDetails /\ pt = IdleProcess
    /\ account_info = "Unknown" /\ dec = IdleDecode
    /\ pnl = IdlePnl /\ market = IdleMarket /\ token_price_cache = NoAssets
    /\ AnalyzeIdle

SpecDetailsNext ==
    \/ DetailsCall
    \/ PostRequestAttempt("main")
    \/ DetailsHandle
    \/ OtherLookups

SpecDetails == SpecDetailsInit /\ [][SpecDetailsNext]_vars


(***************************************************************************)
(* Claims                                                                  *)
(***************************************************************************)

\* C1: fetch_transaction_history returns at most max_transactions records,
\* whatever the endpoint answers (full, short, oversized, empty, duplicate or
\* failed pages).
C1_AtMostMaxCount ==
    fh.pc = "done" => Len(fh.ret) <= fh.max_transactions

\* An oversized page took the list beyond max_transactions and the result was
\* cut.
C1_Witness ==
    /\ fh.pc = "done"
    /\ Len(fh.all_transactions) > fh.max_transactions
    /\ fh.max_transactions > 0
    /\ Len(fh.ret) = fh.max_transactions

\* C2: after three consecutive duplicate pages the fetch stops and returns
\* exactly the list accumulated before the first of them; no entry of the
\* three pages is in the result.
C2_DuplicatesDropped ==
    (fh.pc = "done" /\ fh.stop = "duplicates")
        => fh.ret = SubSeq(fh.all_transactions, 1, fh.pre_dup_len)

\* C3: every Transaction process_transaction returns has
\* net_amount = amount - fee, and no later step changes a returned Transaction.
C3_NetAmount ==
    /\ [](pt.pc = "done" => pt.ret.net_amount = pt.ret.amount - pt.ret.fee)
    /\ [][pt.pc = "done" => pt'.ret = pt.ret]_vars

\* A Transaction with a fee was returned and its caller has read it.
C3_Witness ==
    /\ pt.pc = "done"
    /\ pt.within # None
    /\ pt.ret.fee > 0
    /\ Len(pt.details.instructions) = MaxInstr

IsRoundTrip(stream) ==
    /\ Len(stream) = 2
    /\ stream[1].type = "buy" /\ stream[2].type = "sell"
    /\ stream[1].token = stream[2].token
    /\ stream[1].amount = 10 /\ stream[2].amount = 10
    /\ stream[1].timestamp < stream[2].timestamp

\* C4: the stream [buy 10 T at price 5, sell 10 T at price 8] gives realized
\* PnL 30, win rate 100 and no open position.
C4_RoundTrip ==
    (pnl.pc = "done" /\ IsRoundTrip(pnl.stream) /\ pnl.quoted = <<5, 8>>)
        => /\ pnl.realized_pnl = 30
           /\ pnl.win_rate.num = 100 * pnl.win_rate.den
           /\ DOMAIN pnl.bought_assets = {}

Count(stream, type) == Cardinality({i \in 1..Len(stream) : stream[i].type = type})

\* C5: a stream with exactly one buy (amount a, acquisition price p) and no
\* sell gives realized PnL 0, unrealized PnL a * (current_price - p), and a
\* holding period of 0 with pair count 0.
C5_OneBuy ==
    (/\ pnl.pc = "done" /\ pnl.holding # NoHolding
     /\ Count(pnl.stream, "buy") = 1 /\ Count(pnl.stream, "sell") = 0
     /\ DOMAIN pnl.bought_assets # {})
        => LET token == CHOOSE t \in DOMAIN pnl.bought_assets : TRUE
               asset == pnl.bought_assets[token]
               current_price == token_price_cache[token].price
           IN /\ pnl.realized_pnl = 0
              /\ pnl.unrealized_pnl = asset.amount * (current_price - asset.price)
              /\ pnl.holding.num = 0 /\ pnl.holding.count = 0

\* The payload of a decode_instruction call is shorter than the layout of its
\* program: under 9 bytes for the token program, no byte or a transfer under 9
\* bytes for the system program.
IsShortPayload(call) ==
    /\ ~call.data.is_none
    /\ call.data.s # <<>>
    /\ LET data == safe_base64_decode(call.data.s) IN
       /\ ~data.is_none
       /\ \/ call.program_id = TOKEN_PROGRAM_ID /\ Len(data.bytes) < 9
          \/ call.program_id = SYSTEM_PROGRAM_ID /\ Len(data.bytes) < 1
          \/ /\ call.program_id = SYSTEM_PROGRAM_ID
             /\ Len(data.bytes) \in 1..8
             /\ data.bytes[1] = 3

\* C6: in analyze_wallet a wallet whose balance in USD is below
\* minimum_wallet_capital is excluded (None is returned) and nothing is
\* requested for it but the balance; wherever a page of history or a detail
\* has been requested, the capital check has passed before.
HistoryOrDetailRequested ==
    \/ fh.pc # "idle"
    \/ an.history_calls > 0
    \/ an.detail_calls > 0
    \/ \E t \in Threads :
           frame[t].method \in {"getSignaturesForAddress", "getTransaction"}

C6_CapitalFirst ==
    LET checked == an.sol_to_usd >= 0
        usd == an.sol_balance * an.sol_to_usd
        minimum == an.settings.minimum_wallet_capital
    IN /\ (checked /\ usd < minimum)
              => /\ an.pc = "done"
                 /\ an.ret = NoneRec
                 /\ ~HistoryOrDetailRequested
       /\ HistoryOrDetailRequested
              => /\ checked
                 /\ an.sol_to_usd # 0
                 /\ usd >= minimum

\* A wallet of 1 SOL quoted at 100 USD, asked for 150 USD, was excluded after
\* its balance was requested.
C6_Witness ==
    /\ an.pc = "done"
    /\ an.reason = "capital"
    /\ an.balance_calls = 1
    /\ an.sol_balance = 1
    /\ an.wallet_balance_usd = 100
    /\ an.settings.minimum_wallet_capital = 150
    /\ an.ret = NoneRec

\* C7: a payload shorter than its program's layout decodes to None without
\* raising, and process_transaction goes on to the next instruction.
C7_ShortPayloadSkipped ==
    \A k \in 1..Len(pt.calls) :
        IsShortPayload(pt.calls[k])
            => /\ pt.calls[k].ret = NoneRec
               /\ pt.idx > pt.calls[k].i

\* A short payload was met before the last instruction and the instruction
\* after it was decoded too.
C7_Witness ==
    /\ pt.pc = "done"
    /\ \E k \in 1..Len(pt.calls) :
          /\ IsShortPayload(pt.calls[k])
          /\ \E j \in 1..Len(pt.calls) : pt.calls[j].i = pt.calls[k].i + 1

C9_Retries ==
    LET f == frame["main"] IN
    /\ f.sent <= max_retries
    /\ f.rotations = f.attempt
    /\ f.pc = "loop" => f.sent = f.attempt
    /\ f.last = "200" => f.pc = "returned"
    /\ (f.pc = "returned" /\ f.ret # NoneRec)
           => /\ f.last = "200"
              /\ f.sent = f.attempt + 1

\* The third request was answered 200 after two requests failed.
C9_Witness ==
    LET f == frame["main"] IN
    /\ f.pc = "returned"
    /\ f.ret # NoneRec
    /\ f.sent = max_retries
    /\ f.rotations = 2
    /\ f.seen = {"429", "timeout"}

\* C10: when every request of a post_request fails, the call returns None and
\* does not raise, whatever the failures are (429, another status, a timeout,
\* a connection error).
C10_FailureIsNone ==
    LET f == frame["main"] IN
    /\ f.pc # "raised"
    /\ (f.pc = "returned" /\ f.last # "200")
           => /\ f.ret = NoneRec
              /\ f.sent = max_retries

\* Three requests failed in three different ways, a connection error last.
C10_Witness ==
    LET f == frame["main"] IN
    /\ f.pc = "returned"
    /\ f.ret = NoneRec
    /\ f.last = "connection_error"
    /\ f.seen = {"other_status", "timeout", "connection_error"}

\* C11: the first request of a post_request goes to the URL that was current
\* when the call before it returned, or to the first URL of the list when
\* there was none; a call answered 200 at its first request leaves the current
\* URL as it was.
C11_Sticky ==
    LET f == frame["main"] IN
    /\ f.first_url # 0
          => f.first_url = (IF f.prev_url = 0 THEN rpc_urls[1] ELSE f.prev_url)
    /\ (f.pc = "returned" /\ f.attempt = 0) => current_rpc_url = f.first_url

\* After an earlier call moved the client to the second URL, a call was
\* answered 200 at its first request, posted to that URL.
C11_Witness ==
    LET f == frame["main"] IN
    /\ f.pc = "returned"
    /\ f.attempt = 0
    /\ f.ret # NoneRec
    /\ f.prev_url # rpc_urls[1]
    /\ f.first_url = f.prev_url
    /\ current_rpc_url = f.prev_url

\* C12 as stated: once fetch_transaction_details(sig) has returned, a later
\* call for sig posts no request and returns the same value, however many
\* other signatures were looked up in between.
C12_AlwaysCached ==
    dt.before.known
        => /\ dt.calls = 0
           /\ dt.pc = "done" => dt.ret = dt.before.value

\* C12 amended: once fetch_transaction_details(sig) has returned, a later call
\* for sig posts no request and returns the same value, provided fewer than
\* 128 distinct other signatures were looked up since the latest call for sig.
C12_CachedWhileKept ==
    (dt.before.known /\ dt.before.age < lru_maxsize)
        => /\ dt.calls = 0
           /\ dt.pc = "done" => dt.ret = dt.before.value

\* A detail was returned again, without a request, after 127 other signatures
\* had been looked up.
C12_Witness ==
    /\ dt.pc = "done"
    /\ dt.before.known
    /\ dt.before.age = lru_maxsize - 1
    /\ dt.calls = 0
    /\ dt.ret # NoneRec
    /\ dt.ret = dt.before.value


\* The average holding period that belongs to a returned result: that of the
\* events calculate_pnl returned, or 0 where none was computed.
HoldingOfResult ==
    IF an.reason = "result" THEN pnl.holding ELSE [num |-> 0, den |-> 1, count |-> 0]

\* C13: every result analyze_wallet returns has win_rate >= minimum_win_rate,
\* total_pnl >= minimum_total_pnl and an average holding period >=
\* minimum_avg_holding_period, whatever the history fetch gave.
C13_ResultsPassThresholds ==
    (an.pc = "done" /\ an.ret # NoneRec /\ an.ret.tag = "result")
        => /\ ~Below(an.ret.win_rate, an.settings.minimum_win_rate)
           /\ an.ret.total_pnl >= an.settings.minimum_total_pnl
           /\ ~Below(HoldingOfResult, an.settings.minimum_avg_holding_period)


\* The dict the branches of decode_instruction build for an instruction of a
\* transaction, None when no branch recognizes it.
Recognized(instruction, account_keys) ==
    IF ~instruction.has_index
    THEN NoneRec
    ELSE LET program_id == ProgramId(account_keys, instruction.programIdIndex)
         IN IF program_id.raised
            THEN NoneRec
            ELSE decode_instruction_lookup(instruction.data, program_id.id,
                                           account_keys)

\* C14: the type and amount of the returned Transaction are those of the
\* first instruction, in list order, that decodes to a recognized type, and
\* no instruction after it is decoded.
C14_FirstMatch ==
    pt.pc = "done" =>
        \A k \in 1..Len(pt.details.instructions) :
            LET first == Recognized(pt.details.instructions[k], pt.account_keys)
            IN (/\ first # NoneRec
                /\ \A j \in 1..(k - 1) :
                      Recognized(pt.details.instructions[j], pt.account_keys)
                          = NoneRec)
                   => /\ pt.ret.type = Get(first.d, "type", None)
                      /\ pt.ret.amount = Get(first.d, "amount", 0)
                      /\ \A c \in 1..Len(pt.calls) : pt.calls[c].i <= k


\* The sequence q without its k-th element.
RemoveAt(q, k) == SubSeq(q, 1, k - 1) \o SubSeq(q, k + 1, Len(q))

\* C15: a transaction that is neither a buy nor a sell is a no-op for
\* calculate_pnl: the stream without it gives the same realized, unrealized
\* and total PnL, the same win rate, the same open positions and the same
\* buy/sell event list.
C15_NonTradeNoOp ==
    pnl.pc = "done" =>
        \A k \in 1..Len(pnl.stream) :
            pnl.stream[k].type \notin {"buy", "sell"} =>
                LET without == calculate_pnl(RemoveAt(pnl.stream, k),
                                             RemoveAt(pnl.quoted, k), market)
                IN /\ pnl.realized_pnl = without.realized_pnl
                   /\ pnl.unrealized_pnl = without.unrealized_pnl
                   /\ pnl.total_pnl = without.total_pnl
                   /\ pnl.win_rate.num * without.win_rate.den
                         = without.win_rate.num * pnl.win_rate.den
                   /\ pnl.bought_assets = without.bought_assets
                   /\ pnl.buy_sell_dates = without.buy_sell_dates


\* C16: analyze_wallet applies the caller's timeframe: no transaction older
\* than the timeframe is among those calculate_pnl aggregates for the wallet.
C16_TimeframeApplied ==
    (an.pc \in {"pnl", "done"} /\ pnl.pc # "idle")
        => \A i \in 1..Len(pnl.stream) :
              pnl.stream[i].timestamp # NoneTime
                  => is_within_timeframe(pnl.stream[i].timestamp,
                                         an.settings.timeframe)


\* C17: rotation by the pool threads is race-free: whenever no thread is
\* inside switch_rpc_url, the k rotations made so far have advanced the
\* current endpoint by k positions modulo the length of a list of distinct
\* URLs.
C17_RotationRaceFree ==
    (/\ \A t \in Workers : frame[t].pc \notin {"switch", "write"}
     /\ \A i, j \in 1..Len(rpc_urls) : rpc_urls[i] = rpc_urls[j] => i = j)
        => IndexOf(rpc_urls, current_rpc_url)
              = (frame["w1"].rotations + frame["w2"].rotations) % Len(rpc_urls)


\* The detail fetch and the processing of a task succeeded.
Succeeded(details) ==
    /\ details # NoneRec
    /\ process_transaction(details, details.accountKeys).pc # "raised"

\* The Transactions of the tasks from the i-th on that succeeded, in the order
\* of the input list.
RECURSIVE SucceededFrom(_, _)
SucceededFrom(details, i) ==
    IF i > Len(details) THEN <<>>
    ELSE (IF Succeeded(details[i])
          THEN <<process_transaction(details[i], details[i].accountKeys).ret>>
          ELSE <<>>) \o SucceededFrom(details, i + 1)

\* C18: whatever the interleaving of the pool threads, the list
\* process_transactions_concurrently returns holds the Transaction of each
\* input signature whose detail fetch and processing succeeded, none for a
\* failed one, in the order of the input list.
C18_OneResultPerSuccess ==
    (an.pc \in {"pnl", "done"} /\ an.details # <<>>)
        => /\ \A i \in 1..Len(an.details) :
                 an.details[i] # NoneRec
                     => an.details[i].signature = an.transactions[i]
           /\ an.processed_transactions = SucceededFrom(an.details, 1)
           /\ \A k \in 1..Len(an.processed_transactions) :
                 \E i \in k..Len(an.transactions) :
                     an.processed_transactions[k].signature = an.transactions[i]

\* Of two tasks for different signatures the first failed and the second
\* succeeded, and the list holds the Transaction of the second alone.
C18_Witness ==
    /\ an.pc = "pnl"
    /\ \E i \in 1..Len(an.details) :
          /\ i + 1 <= Len(an.details)
          /\ an.transactions[i] # an.transactions[i + 1]
          /\ ~Succeeded(an.details[i])
          /\ Succeeded(an.details[i + 1])
          /\ Len(an.processed_transactions) = 1
          /\ an.processed_transactions[1].signature = an.transactions[i + 1]


\* C19: calculate_pnl consumes the transactions in non-decreasing order of
\* timestamp, whatever order they are handed over in, so that a buy that
\* happened before a sell of the same token is consumed before it.
C19_ConsumedByTimestamp ==
    pnl.pc \in {"scan", "done"} =>
        \A i, j \in 1..(pnl.i - 1) :
            (/\ i < j
             /\ pnl.stream[i].timestamp # NoneTime
             /\ pnl.stream[j].timestamp # NoneTime)
                => pnl.stream[i].timestamp <= pnl.stream[j].timestamp


\* The page the loop body of fetch_transaction_history is about to look at:
\* the answer of post_request when it is a list of records that is not empty,
\* <<>> otherwise.
PageAtHand ==
    LET f == frame["main"] IN
    IF /\ fh.pc = "wait"
       /\ f.pc = "returned"
       /\ f.ret # NoneRec
       /\ f.ret.body.has_result
       /\ \A i \in 1..Len(f.ret.body.result) : f.ret.body.result[i] # 0
    THEN f.ret.body.result
    ELSE <<>>

\* C20: the duplicate counter counts consecutive duplicate pages: a page whose
\* first signature is the last accumulated one adds 1 to it, any other page
\* sets it to 0, the fetch is aborted for duplicates exactly when the counter
\* reaches 3, and the page it is aborted on is not appended.
C20_ConsecutiveDuplicates ==
    [][(PageAtHand # <<>> /\ fh' # fh) =>
          LET dup == /\ fh.all_transactions # <<>>
                     /\ PageAtHand[1] = Last(fh.all_transactions)
          IN /\ fh'.duplicate_count = (IF dup THEN fh.duplicate_count + 1 ELSE 0)
             /\ (fh'.stop = "duplicates") <=> (dup /\ fh.duplicate_count + 1 = 3)
             /\ fh'.stop = "duplicates"
                   => /\ fh'.pc = "done"
                      /\ fh'.all_transactions = fh.all_transactions]_vars

\* A fetch was aborted on its third consecutive duplicate page: the two
\* duplicate pages before it were appended to the list, the third was not.
C20_Witness ==
    /\ fh.pc = "done"
    /\ fh.stop = "duplicates"
    /\ fh.duplicate_count = 3
    /\ fh.pre_dup_len >= 1
    /\ Len(fh.all_transactions) = fh.pre_dup_len + 2 * fh.batch_size


\* C21: a call of fetch_transaction_history makes at most
\* max(1, max_transactions div batch_size + 1) page requests, whatever the
\* endpoint answers: that number is the budget of its loop, and each iteration
\* makes one request.
C21_BoundedRequests ==
    fh.pc # "idle" =>
        LET budget == IF fh.max_transactions \div fh.batch_size + 1 > 1
                      THEN fh.max_transactions \div fh.batch_size + 1
                      ELSE 1
        IN /\ fh.max_iterations = budget
           /\ fh.iteration <= fh.max_iterations
           /\ fh.requests = fh.iteration

\* A fetch that was served full pages used its whole budget of two or more
\* requests and returned.
C21_Witness ==
    /\ fh.pc = "done"
    /\ fh.requests >= 2
    /\ fh.requests = fh.max_transactions \div fh.batch_size + 1


\* C22: the pages are requested one after another, each with the cursor of the
\* page before it: a page request is made only when no request is under way,
\* the first carries no "before", and every later one carries the last
\* signature of the page received just before it.
C22_CursorChained ==
    [][fh'.requests # fh.requests =>
          /\ fh.pc = "loop" /\ frame["main"].pc = "idle"
          /\ fh'.requests = fh.requests + 1
          /\ frame'["main"].method = "getSignaturesForAddress"
          /\ frame'["main"].params =
                (IF fh.requests = 0 THEN 0 ELSE Last(fh.all_transactions))]_vars

\* The second request of a fetch is under way; the page before it held two
\* different signatures and the request carries the second.
C22_Witness ==
    /\ fh.pc = "wait"
    /\ fh.requests = 2
    /\ Len(fh.all_transactions) = 2
    /\ fh.all_transactions[1] # fh.all_transactions[2]
    /\ frame["main"].params = fh.all_transactions[2]


\* C23: for every configured list, one that names a URL twice included, a
\* rotation moves the client to the next position of the list with
\* wrap-around: the first post_request of a client, which starts at the first
\* position, has after k rotations the URL at position k modulo the length of
\* the list as its current URL.
C23_NextPosition ==
    LET f == frame["main"] IN
    (f.pc # "idle" /\ f.prev_url = 0)
        => current_rpc_url = rpc_urls[(f.rotations % Len(rpc_urls)) + 1]


\* The answer of the post_request call that has just ended carries a result.
CarriesResult(f) ==
    /\ f.pc = "returned"
    /\ f.ret # NoneRec
    /\ f.ret.body.has_result

\* C24: one fetch_transaction_details call makes at most 3 post_request
\* calls, each of at most 3 requests; it calls again only after a call that
\* carried no result, returns the result of the first call that carries one,
\* and returns None after the third call without one. It never raises.
C24_ThreeCalls ==
    /\ [](dt.calls <= 3 /\ frame["main"].sent <= 3 /\ dt.pc # "raised")
    /\ [][(dt.pc = "wait" /\ dt' # dt) =>
            LET f == frame["main"] IN
            IF CarriesResult(f)
            THEN /\ dt'.pc = "done"
                 /\ dt'.ret = f.ret.body.result
            ELSE IF dt.calls < 3
            THEN /\ dt'.pc = "wait"
                 /\ dt'.calls = dt.calls + 1
            ELSE /\ dt'.pc = "done"
                 /\ dt'.ret = NoneRec]_vars

\* Two calls carried no result and the third did: its detail was returned.
C24_Witness ==
    /\ dt.pc = "done"
    /\ dt.calls = 3
    /\ dt.attempt = 2
    /\ dt.ret # NoneRec


\* C25: a call that returned for a raw detail without a block time (the key
\* absent, or null) gives the Transaction the current time as its timestamp.
C25_MissingBlockTimeIsNow ==
    (pt.pc = "done" /\ pt.details.blockTime.kind # "int")
        => pt.ret.timestamp = Now


\* No decode_instruction call of the finished process_transaction call gave a
\* result (none was made for an empty instruction list).
NoneClassifiable(p) == \A i \in 1..Len(p.calls) : p.calls[i].ret = NoneRec

TypeNames == {"buy", "sell", "transfer"}

InvalidIndex(p, i) ==
    LET instruction == p.details.instructions[i] IN
    \/ ~instruction.has_index
    \/ instruction.programIdIndex \notin 0..(Len(p.account_keys) - 1)

\* C27: process_transaction never raises on an instruction without a valid
\* programIdIndex; such an instruction is not the one the loop stops at, and
\* the loop goes on to the instructions after it.
C27_InvalidIndexSkipped ==
    /\ pt.pc # "raised"
    /\ \A i \in 1..Len(pt.details.instructions) :
          InvalidIndex(pt, i) =>
              /\ ~(pt.left_by = "break" /\ pt.idx = i)
              /\ (pt.pc = "done" /\ pt.left_by = "end") =>
                     pt.idx = Len(pt.details.instructions) + 1


\* The bytes of the latest decode_instruction call's payload (none when the
\* payload is None or no base64).
PayloadBytes(call) ==
    IF call.input.data.is_none
    THEN <<>>
    ELSE safe_base64_decode(call.input.data.s).bytes

\* C28: for the token program and a payload of at least 9 bytes with byte 0
\* equal to 3, decode_instruction returns a transfer whose amount is the
\* little-endian integer of bytes [1:9] over 10**9 and whose account is the
\* key at the index of byte 9, or "Unknown" when there is no such key.
C28_TokenTransferDecoded ==
    LET call == dec.last
        data == PayloadBytes(call)
    IN (/\ call.made
        /\ call.input.program_id = TOKEN_PROGRAM_ID
        /\ Len(data) >= 9
        /\ data[1] = 3)
       => /\ call.ret # NoneRec
          /\ call.ret.d.type = "transfer"
          /\ call.ret.d.amount = FromBytesLittle(Slice(data, 1, 9)) \div E9
          /\ call.ret.d.token_account =
                 KeyAt(call.input.account_keys,
                       FromBytesLittle(Slice(data, 9, 10)))


\* The base58 digit of a payload character (given by its base64 value:
\* A-Z 0..25, a-z 26..51, 0-9 52..61), or -1: the base58 alphabet is
\* 1-9, A-Z without I and O, a-z without l.
Base58Digit(c) ==
    CASE c \in 53..61 -> c - 53
      [] c \in 0..7 -> c + 9
      [] c \in 9..13 -> c + 8
      [] c \in 15..25 -> c + 7
      [] c \in 26..36 -> c + 7
      [] c \in 38..51 -> c + 6
      [] OTHER -> -1

IsBase58(s) == Len(s) > 0 /\ \A i \in 1..Len(s) : Base58Digit(s[i]) >= 0

RECURSIVE Base58Number(_)
Base58Number(s) ==
    IF Len(s) = 0 THEN 0
    ELSE Base58Number(SubSeq(s, 1, Len(s) - 1)) * 58 + Base58Digit(s[Len(s)])

RECURSIVE BigEndianBytes(_)
BigEndianBytes(n) ==
    IF n = 0 THEN <<>> ELSE BigEndianBytes(n \div 256) \o <<n % 256>>

\* Each leading "1" of a base58 string is one leading zero byte.
RECURSIVE LeadingZeros(_)
LeadingZeros(s) ==
    IF Len(s) > 0 /\ Base58Digit(s[1]) = 0
    THEN <<0>> \o LeadingZeros(Tail(s))
    ELSE <<>>

Base58Bytes(s) == LeadingZeros(s) \o BigEndianBytes(Base58Number(s))

\* C29: decode_instruction goes on with the base64 bytes of a payload; with
\* its base58 bytes when the payload is no base64 but is base58; and returns
\* None when it is neither.
C29_Base58Fallback ==
    LET call == dec.last
        s == call.input.data.s
        b64 == safe_base64_decode(s)
    IN (call.made /\ ~call.input.data.is_none /\ s # <<>>) =>
          IF ~b64.is_none
          THEN call.data = b64
          ELSE IF IsBase58(s)
          THEN call.data = [is_none |-> FALSE, bytes |-> Base58Bytes(s)]
          ELSE call.ret = NoneRec


\* C30: the step of calculate_pnl over a sell of a token without an open
\* position changes none of realized PnL, unrealized PnL, the profitable and
\* total trade counts, the open positions and the event list; the loop goes
\* on with the next transaction.
C30_SellWithoutPositionSkipped ==
    [][(/\ pnl.pc = "scan"
        /\ pnl.i <= Len(pnl.stream)
        /\ pnl.stream[pnl.i].type = "sell"
        /\ pnl.stream[pnl.i].token \notin DOMAIN pnl.bought_assets
        /\ pnl' # pnl)
       => /\ pnl'.pc = "scan"
          /\ pnl'.i = pnl.i + 1
          /\ pnl'.realized_pnl = pnl.realized_pnl
          /\ pnl'.unrealized_pnl = pnl.unrealized_pnl
          /\ pnl'.profitable_trades = pnl.profitable_trades
          /\ pnl'.total_trades = pnl.total_trades
          /\ pnl'.bought_assets = pnl.bought_assets
          /\ pnl'.buy_sell_dates = pnl.buy_sell_dates]_vars

\* A buy of one token was counted, then a priced sell of another token, of
\* which nothing is held, was passed over.
C30_Witness ==
    /\ pnl.pc = "scan"
    /\ pnl.i = 3
    /\ pnl.stream[1].type = "buy"
    /\ pnl.stream[2].type = "sell"
    /\ pnl.stream[2].token \notin DOMAIN pnl.bought_assets
    /\ pnl.stream[2].token # pnl.stream[1].token
    /\ pnl.quoted[2] # 0
    /\ DOMAIN pnl.bought_assets = {pnl.stream[1].token}
    /\ pnl.total_trades = 1
    /\ Len(pnl.buy_sell_dates) = 1


\* The step of the scan has taken the buy or sell it stood at: the event was
\* appended to the event list.
Accepted(p, q) == Len(q.buy_sell_dates) = Len(p.buy_sell_dates) + 1

\* C31: bought_assets holds one position per token. The scan starts without
\* positions; an accepted buy of T leaves a position of T (the one of that buy)
\* and the other positions as they were; an accepted sell of T finds a
\* position of T and removes it and no other; every other step leaves the
\* positions alone. So T has a position exactly when the last accepted
\* buy or sell of T was a buy.
C31_OnePositionPerToken ==
    /\ []((pnl.pc = "scan" /\ pnl.i = 1) => pnl.bought_assets = NoAssets)
    /\ [][(pnl.pc = "scan" /\ pnl.i <= Len(pnl.stream) /\ pnl' # pnl) =>
            LET transaction == pnl.stream[pnl.i]
                T == transaction.token
            IN IF Accepted(pnl, pnl') /\ transaction.type = "buy"
               THEN /\ DOMAIN pnl'.bought_assets = DOMAIN pnl.bought_assets \cup {T}
                    /\ pnl'.bought_assets[T].amount = transaction.amount
                    /\ pnl'.bought_assets[T].timestamp = transaction.timestamp
                    /\ \A t \in DOMAIN pnl.bought_assets \ {T} :
                          pnl'.bought_assets[t] = pnl.bought_assets[t]
               ELSE IF Accepted(pnl, pnl') /\ transaction.type = "sell"
               THEN /\ T \in DOMAIN pnl.bought_assets
                    /\ DOMAIN pnl'.bought_assets = DOMAIN pnl.bought_assets \ {T}
                    /\ \A t \in DOMAIN pnl'.bought_assets :
                          pnl'.bought_assets[t] = pnl.bought_assets[t]
               ELSE /\ ~Accepted(pnl, pnl')
                    /\ pnl'.bought_assets = pnl.bought_assets]_vars

\* T2 and T1 were bought and T1 was sold: the position of T2 alone is left.
C31_Witness ==
    /\ pnl.pc = "scan"
    /\ pnl.i = 4
    /\ pnl.stream[1].type = "buy" /\ pnl.stream[1].token = "T2"
    /\ pnl.stream[2].type = "buy" /\ pnl.stream[2].token = "T1"
    /\ pnl.stream[3].type = "sell" /\ pnl.stream[3].token = "T1"
    /\ Len(pnl.buy_sell_dates) = 3
    /\ DOMAIN pnl.bought_assets = {"T2"}


\* C32: the average holding period is the mean, in minutes, of sell time
\* minus buy time over the pairs (k-th buy event, k-th sell event) of the
\* event list whose sell stands after its buy in the list; every averaged
\* period is >= 0; the count returned is the number of pairs averaged.
C32_AlignedPairsMean ==
    pnl.holding # NoHolding =>
        LET dates == pnl.buy_sell_dates
            buys == IndicesFrom(dates, "buy", 1)
            sells == IndicesFrom(dates, "sell", 1)
            n == Min(Len(buys), Len(sells))
            aligned == {k \in 1..n : sells[k] > buys[k]}
            period(k) == Strptime(dates[sells[k] + 1].datetime)
                         - Strptime(dates[buys[k] + 1].datetime)
            periods == [k \in 1..n |-> IF k \in aligned THEN period(k) ELSE 0]
        IN /\ pnl.holding.count = Cardinality(aligned)
           /\ \A k \in aligned : period(k) >= 0
           /\ pnl.holding.num = SumSeq(periods)
           /\ pnl.holding.den =
                  (IF aligned = {} THEN 1 ELSE 60 * Cardinality(aligned))


\* C33: when the answer to a page request is a failure (post_request raised
\* or returned None, or the body has no result), fetch_transaction_history
\* returns what it has accumulated, cut to max_transactions; and the metrics
\* of a wallet are computed from the Transactions of the detail fetches that
\* succeeded, whichever failed.
C33_BestEffort ==
    /\ [][(fh.pc = "wait" /\ fh' # fh /\ InvalidResponse(frame["main"])) =>
            /\ fh'.pc = "done"
            /\ fh'.ret = SubSeq(fh.all_transactions, 1,
                                Min(Len(fh.all_transactions), fh.max_transactions))]_vars
    /\ []((an.pc \in {"pnl", "done"} /\ an.details # <<>>
              /\ SucceededFrom(an.details, 1) # <<>>) =>
            /\ pnl.stream = SucceededFrom(an.details, 1)
            /\ an.reason = "result" =>
                  /\ an.ret.total_pnl = pnl.total_pnl
                  /\ an.ret.realized_pnl = pnl.realized_pnl
                  /\ an.ret.unrealized_pnl = pnl.unrealized_pnl
                  /\ an.ret.win_rate = pnl.win_rate)

\* The second page request of the history failed after a page of two
\* signatures; of their two detail fetches one failed, and the wallet's result
\* was computed from the other.
C33_Witness ==
    /\ an.pc = "done"
    /\ an.reason = "result"
    /\ an.history_failed
    /\ an.history_calls = 2
    /\ Len(an.transactions) = 2
    /\ \E i \in 1..2 : an.details[i] = NoneRec
    /\ Len(pnl.stream) = 1
    /\ pnl.total_trades = 1


\* C34: when calculate_pnl has returned and no position is left in
\* bought_assets, the unrealized PnL is 0 and the total PnL is the realized
\* PnL.
C34_NoPositionNoUnrealized ==
    (pnl.pc = "done" /\ DOMAIN pnl.bought_assets = {}) =>
        /\ pnl.unrealized_pnl = 0
        /\ pnl.total_pnl = pnl.realized_pnl


\* C35: the list fetch_transaction_history returns holds no signature twice,
\* whatever pages the endpoint answered with.
C35_NoSignatureTwice ==
    fh.pc = "done" =>
        \A i, j \in 1..Len(fh.ret) : fh.ret[i] = fh.ret[j] => i = j


\* C36: every result analyze_wallet returns carries the address, the three
\* PnL figures and the win rate, the event list (under "trades" or under
\* "buy_sell_dates"), and the settings the caller gave: the timeframe and the
\* four minimums.
C36_ResultCarriesSettings ==
    (an.pc = "done" /\ an.ret # NoneRec /\ an.ret.tag = "result") =>
        /\ an.ret.address = an.wallet_address
        /\ {"total_pnl", "realized_pnl", "unrealized_pnl", "win_rate"}
               \subseteq DOMAIN an.ret
        /\ {"trades", "buy_sell_dates"} \cap DOMAIN an.ret # {}
        /\ an.ret.has_settings
        /\ an.ret.settings = an.settings


\* C37: what fetch_transaction_details returned for a signature is stored in
\* its cache also when it is None, and a later call for that signature gives
\* None without a request; the balance 0 that fetch_wallet_balance returns
\* after a failed request is stored in its cache.
C37_FailureMemoised ==
    /\ [][\A w \in Workers :
            (wk[w].pc = "wait" /\ wk'[w].pc = "idle") =>
                LET sig == an.transactions[wk[w].i] IN
                /\ sig \in DOMAIN details_cache'
                /\ InvalidResponse(frame[w]) => details_cache'[sig] = NoneRec]_vars
    /\ [][(/\ an.pc = "processing"
           /\ an'.pc = "processing"
           /\ an'.next = an.next + 1
           /\ an.transactions[an.next] \in DOMAIN details_cache
           /\ details_cache[an.transactions[an.next]] = NoneRec) =>
              /\ an'.details[an.next] = NoneRec
              /\ an'.results[an.next] = Skipped
              /\ an'.detail_calls = an.detail_calls
              /\ frame' = frame]_vars
    /\ [][(an.pc = "balance" /\ an'.pc # "balance") =>
              /\ Wallet \in DOMAIN balance_cache'
              /\ an'.balance_failed => balance_cache'[Wallet] = 0]_vars

\* The balance request failed and 0 is in the balance cache; the history
\* listed one signature twice, the detail fetch of the first task failed after
\* three calls, and the second task got None from the cache without a call.
C37_Witness ==
    /\ an.pc = "processing"
    /\ an.balance_failed
    /\ Wallet \in DOMAIN balance_cache
    /\ balance_cache[Wallet] = 0
    /\ Len(an.transactions) = 2
    /\ an.transactions[1] = an.transactions[2]
    /\ an.details = <<NoneRec, NoneRec>>
    /\ an.detail_calls = 3
    /\ an.transactions[1] \in DOMAIN details_cache
    /\ details_cache[an.transactions[1]] = NoneRec


\* get_token_price is called for the transaction: it is a buy or a sell.
IsPriced(transaction) == transaction.type \in {"buy", "sell"}

\* The distinct other tokens priced between positions i and j of a stream.
OthersPricedBetween(stream, i, j) ==
    {stream[k].token : k \in {x \in (i + 1)..(j - 1) : IsPriced(stream[x])}}
        \ {stream[i].token}

\* For every buy and every later sell of its token among the first n
\* transactions, fewer than 128 distinct other tokens were priced in between:
\* the lookup of the sell is answered from the cache.
ServedFromCache(stream, n) ==
    \A i, j \in 1..n :
        (/\ i < j
         /\ stream[i].type = "buy"
         /\ stream[j].type = "sell"
         /\ stream[i].token = stream[j].token)
            => Cardinality(OthersPricedBetween(stream, i, j)) < 128

\* C38: as long as the price lookup of every sell is answered from the cache
\* that the buy of its token filled, the sell is priced at the acquisition
\* price: realized PnL and the count of profitable trades stay 0, whatever the
\* collaborator quotes meanwhile.
C38_SellAtAcquisitionPrice ==
    (pnl.pc \in {"scan", "done"} /\ ServedFromCache(pnl.stream, pnl.i - 1))
        => /\ pnl.realized_pnl = 0
           /\ pnl.profitable_trades = 0

\* T1 was bought at the quote 5 and sold, after 127 other tokens had been
\* priced, while the collaborator quoted 8: the sell was taken at 5.
C38_Witness ==
    /\ pnl.pc = "done"
    /\ Len(pnl.stream) >= 129
    /\ Len(pnl.buy_sell_dates) = 2
    /\ DOMAIN pnl.bought_assets = {}
    /\ ServedFromCache(pnl.stream, Len(pnl.stream))
    /\ \E i, j \in 1..Len(pnl.stream) :
          /\ pnl.stream[i].type = "buy" /\ pnl.stream[i].token = "T1"
          /\ pnl.stream[j].type = "sell" /\ pnl.stream[j].token = "T1"
          /\ pnl.quoted[i] = 5
          /\ pnl.quoted[j] = 8
    /\ pnl.realized_pnl = 0

=============================================================================
